---- MODULE Spec2Model ----
(***************************************************************************)
(* The 6502 core of nes_emu (src/src/cpu.rs), the bus it drives            *)
(* (src/src/mmu.rs) and the driver loop around it (src/src/lib.rs,         *)
(* src/src/main.rs), as a state machine.                                   *)
(*                                                                         *)
(* A CPU operation is a Rust method taking &mut self.  Here it is an       *)
(* operator from a machine record s = [regs, cycle_count, cc, ram, bus,    *)
(* fault, v, addr] to the record after the call; a method that returns a   *)
(* value leaves it in v.  bus is the list of bus accesses the current      *)
(* operation has made, fault the panic that ended it.  Once                *)
(* s.fault.kind # "none" the rest of the operation does nothing, as after  *)
(* a Rust panic.  Statements that follow a call are an operator of their   *)
(* own, applied to the machine the call leaves.                            *)
(***************************************************************************)
EXTENDS Integers, Sequences, FiniteSets, TLC

VARIABLES
    regs,             \* Cpu.regs: [acc, x, y, pc, sp, flags]
    cycle_count,      \* Cpu.cycle_count, the per-step cycle counter
    cc,               \* Cpu.cc, cycles logged so far (debug logging only)
    ram,              \* Mmu.ram, the non-zero bytes of the work RAM by index
    prg,              \* the cartridge's PRG image by address (never changes)
    overflow_checks,  \* whether the build panics on integer overflow
    log_debug,        \* log_enabled!(Level::Debug)
    fault,            \* the panic that ended the process, kind "none" if none
    bus,              \* bus accesses of the latest CPU operation, in order
    at,               \* the driver loop's position
    ret,              \* the driver's local cc: what the latest step returned
    ppu_cycles,       \* cycles the picture unit has been advanced by
    elapsed,          \* history: sum of the cycle counts step has returned
    steps,            \* history: number of step calls
    nmis,             \* history: number of NMI entries
    last,             \* history: the latest CPU operation and the state it began in
    video             \* the picture unit's Vram, with the latest call made on it

vars == <<regs, cycle_count, cc, ram, prg, overflow_checks, log_debug, fault,
          bus, at, ret, ppu_cycles, elapsed, steps, nmis, last, video>>

-----------------------------------------------------------------------------
(* Bounds of the model *)

MaxSteps == 7
MaxNmis == 1
MaxVideoOps == 3

-----------------------------------------------------------------------------
(* Fixed-width arithmetic *)

Hi(a) == a \div 256
Lo(a) == a % 256
Page(a) == (a \div 256) * 256
Word(high, low) == high * 256 + low

Pow2(n) == CASE n = 0 -> 1 [] n = 1 -> 2 [] n = 2 -> 4 [] n = 3 -> 8
             [] n = 4 -> 16 [] n = 5 -> 32 [] n = 6 -> 64 [] n = 7 -> 128

BitOf(v, n) == (v \div Pow2(n)) % 2

RECURSIVE BitAnd(_, _)
BitAnd(a, b) ==
    IF a = 0 \/ b = 0 THEN 0
    ELSE (a % 2) * (b % 2) + 2 * BitAnd(a \div 2, b \div 2)

RECURSIVE BitOr(_, _)
BitOr(a, b) ==
    IF a = 0 THEN b
    ELSE IF b = 0 THEN a
    ELSE (IF a % 2 = 1 \/ b % 2 = 1 THEN 1 ELSE 0) + 2 * BitOr(a \div 2, b \div 2)

RECURSIVE BitXor(_, _)
BitXor(a, b) ==
    IF a = 0 THEN b
    ELSE IF b = 0 THEN a
    ELSE ((a + b) % 2) + 2 * BitXor(a \div 2, b \div 2)

\* i8 value of a byte (the cast `as i8`)
AsI8(b) == IF b >= 128 THEN b - 256 ELSE b

\* a `+`, `-`, `+=`, `-=` on unsigned integers of modulus m: the build either
\* panics on overflow (overflow_checks) or wraps
Overflows(v, m) == overflow_checks /\ (v < 0 \/ v >= m)
Wrap(v, m) == ((v % m) + m) % m

-----------------------------------------------------------------------------
(* Registers and flags *)

CARRY == 0
ZERO == 1
ITR == 2
DEC == 3
BRK_BIT == 4
UNUSED == 5
OVERFLOW == 6
NEG == 7

flag(f, n) == BitOf(f, n) = 1
set_flag(f, n, b) == f - BitOf(f, n) * Pow2(n) + (IF b THEN Pow2(n) ELSE 0)

Registers_reset(r, address) ==
    [acc |-> 0, x |-> 0, y |-> 0, pc |-> address, sp |-> \hFD, flags |-> 36]

NoFault == [kind |-> "none", op |-> 0, regs |-> Registers_reset(<<>>, 0)]

\* a variant of panic that lets the operation carry on: what C8 excludes
panic_skipped(s, kind, op) == s

panic(s, kind, op) ==
    [s EXCEPT !.fault = [kind |-> kind, op |-> op, regs |-> s.regs]]

Ok(s) == s.fault.kind = "none"

-----------------------------------------------------------------------------
(* cpu_const: the vectors, the DMA addresses, the opcode names and the      *)
(* base cycle table.  The file is not among the sources; these are the      *)
(* 6502's documented values.                                                *)

RESET_VEC == \hFFFC
NMI_VEC == \hFFFA
IRQ_VEC == \hFFFE
DMA_ADDR == \h4014
OAM_DATA == \h2004

CYCLES ==
    << 7,6,2,8,3,3,5,5,3,2,2,2,4,4,6,6,
       2,5,2,8,4,4,6,6,2,4,2,7,4,4,7,7,
       6,6,2,8,3,3,5,5,4,2,2,2,4,4,6,6,
       2,5,2,8,4,4,6,6,2,4,2,7,4,4,7,7,
       6,6,2,8,3,3,5,5,3,2,2,2,3,4,6,6,
       2,5,2,8,4,4,6,6,2,4,2,7,4,4,7,7,
       6,6,2,8,3,3,5,5,4,2,2,2,5,4,6,6,
       2,5,2,8,4,4,6,6,2,4,2,7,4,4,7,7,
       2,6,2,6,3,3,3,3,2,2,2,2,4,4,4,4,
       2,6,2,6,4,4,4,4,2,5,2,5,5,5,5,5,
       2,6,2,6,3,3,3,3,2,2,2,2,4,4,4,4,
       2,5,2,5,4,4,4,4,2,4,2,4,4,4,4,4,
       2,6,2,8,3,3,5,5,2,2,2,2,4,4,6,6,
       2,5,2,8,4,4,6,6,2,4,2,7,4,4,7,7,
       2,6,2,8,3,3,5,5,2,2,2,2,4,4,6,6,
       2,5,2,8,4,4,6,6,2,4,2,7,4,4,7,7 >>

\* CYCLES[byte as usize]
Cycles(op) == CYCLES[op + 1]

cpu_const == [
    ADC_IMM |-> \h69, ADC_ZP |-> \h65, ADC_ZPX |-> \h75, ADC_ABS |-> \h6D,
    ADC_ABSX |-> \h7D, ADC_ABSY |-> \h79, ADC_INDX |-> \h61, ADC_INDY |-> \h71,
    AND_IMM |-> \h29, AND_ZP |-> \h25, AND_ZPX |-> \h35, AND_ABS |-> \h2D,
    AND_ABSX |-> \h3D, AND_ABSY |-> \h39, AND_INDX |-> \h21, AND_INDY |-> \h31,
    ASL_ACC |-> \h0A, ASL_ZP |-> \h06, ASL_ZPX |-> \h16, ASL_ABS |-> \h0E,
    ASL_ABSX |-> \h1E,
    BCC |-> \h90, BCS |-> \hB0, BEQ |-> \hF0, BMI |-> \h30, BNE |-> \hD0,
    BPL |-> \h10, BVC |-> \h50, BVS |-> \h70,
    BIT_ZP |-> \h24, BIT_ABS |-> \h2C, BRK |-> \h00,
    CLC |-> \h18, CLD |-> \hD8, CLI |-> \h58, CLV |-> \hB8,
    CMP_IMM |-> \hC9, CMP_ZP |-> \hC5, CMP_ZPX |-> \hD5, CMP_ABS |-> \hCD,
    CMP_ABSX |-> \hDD, CMP_ABSY |-> \hD9, CMP_INDX |-> \hC1, CMP_INDY |-> \hD1,
    CPX_IMM |-> \hE0, CPX_ZP |-> \hE4, CPX_ABS |-> \hEC,
    CPY_IMM |-> \hC0, CPY_ZP |-> \hC4, CPY_ABS |-> \hCC,
    DEC_ZP |-> \hC6, DEC_ZPX |-> \hD6, DEC_ABS |-> \hCE, DEC_ABSX |-> \hDE,
    DEX |-> \hCA, DEY |-> \h88,
    EOR_IMM |-> \h49, EOR_ZP |-> \h45, EOR_ZPX |-> \h55, EOR_ABS |-> \h4D,
    EOR_ABSX |-> \h5D, EOR_ABSY |-> \h59, EOR_INDX |-> \h41, EOR_INDY |-> \h51,
    INC_ZP |-> \hE6, INC_ZPX |-> \hF6, INC_ABS |-> \hEE, INC_ABSX |-> \hFE,
    INX |-> \hE8, INY |-> \hC8,
    JMP_ABS |-> \h4C, JMP_IND |-> \h6C, JSR |-> \h20,
    LDA_IMM |-> \hA9, LDA_ZP |-> \hA5, LDA_ZPX |-> \hB5, LDA_ABS |-> \hAD,
    LDA_ABSX |-> \hBD, LDA_ABSY |-> \hB9, LDA_INDX |-> \hA1, LDA_INDY |-> \hB1,
    LDX_IMM |-> \hA2, LDX_ZP |-> \hA6, LDX_ZPY |-> \hB6, LDX_ABS |-> \hAE,
    LDX_ABSY |-> \hBE,
    LDY_IMM |-> \hA0, LDY_ZP |-> \hA4, LDY_ZPX |-> \hB4, LDY_ABS |-> \hAC,
    LDY_ABSX |-> \hBC,
    LSR_ACC |-> \h4A, LSR_ZP |-> \h46, LSR_ZPX |-> \h56, LSR_ABS |-> \h4E,
    LSR_ABSX |-> \h5E,
    NOP |-> \hEA,
    ORA_IMM |-> \h09, ORA_ZP |-> \h05, ORA_ZPX |-> \h15, ORA_ABS |-> \h0D,
    ORA_ABSX |-> \h1D, ORA_ABSY |-> \h19, ORA_INDX |-> \h01, ORA_INDY |-> \h11,
    PHA |-> \h48, PHP |-> \h08, PLA |-> \h68, PLP |-> \h28,
    ROL_ACC |-> \h2A, ROL_ZP |-> \h26, ROL_ZPX |-> \h36, ROL_ABS |-> \h2E,
    ROL_ABSX |-> \h3E,
    ROR_ACC |-> \h6A, ROR_ZP |-> \h66, ROR_ZPX |-> \h76, ROR_ABS |-> \h6E,
    ROR_ABSX |-> \h7E,
    RTI |-> \h40, RTS |-> \h60,
    SBC_IMM |-> \hE9, SBC_ZP |-> \hE5, SBC_ZPX |-> \hF5, SBC_ABS |-> \hED,
    SBC_ABSX |-> \hFD, SBC_ABSY |-> \hF9, SBC_INDX |-> \hE1, SBC_INDY |-> \hF1,
    SEC |-> \h38, SED |-> \hF8, SEI |-> \h78,
    STA_ZP |-> \h85, STA_ZPX |-> \h95, STA_ABS |-> \h8D, STA_ABSX |-> \h9D,
    STA_ABSY |-> \h99, STA_INDX |-> \h81, STA_INDY |-> \h91,
    STX_ZP |-> \h86, STX_ZPY |-> \h96, STX_ABS |-> \h8E,
    STY_ZP |-> \h84, STY_ZPX |-> \h94, STY_ABS |-> \h8C,
    TAX |-> \hAA, TAY |-> \hA8, TSX |-> \hBA, TXA |-> \h8A, TXS |-> \h9A,
    TYA |-> \h98 ]


-----------------------------------------------------------------------------
(* The bus: Mmu and Ram *)

\* the cartridge byte at a PRG address: mapper.ld_prg(address).  The mapper
\* is not among the sources; the image is fixed (no bank switching) and
\* every byte the image does not list reads PRG_FILL.
PRG_FILL == \h02
ld_prg(address) == IF address \in DOMAIN prg THEN prg[address] ELSE PRG_FILL

\* the length of Ram's array, [u8; 0xFFF]
RAM_LEN == \hFFF

\* a variant of the work-RAM index that keeps twelve address bits: what C32
\* excludes
wram_index_4k(address) == address % \h1000

\* address & 0x7FF, the index Mmu::store and Mmu::ld8 give Ram
wram_index(address) == address % \h800

\* Ram::load and Ram::store at an index within the array; an index of
\* RAM_LEN or more panics in Mmu_store and Mmu_ld8
Ram_load(r, address) == IF address \in DOMAIN r THEN r[address] ELSE 0

Ram_store(r, address, val) ==
    IF val = 0
    THEN [a \in DOMAIN r \ {address} |-> r[a]]
    ELSE [a \in DOMAIN r \cup {address} |-> IF a = address THEN val ELSE r[a]]

logged(s, kind, address, val) ==
    [s EXCEPT !.bus = Append(@, <<kind, address, val>>)]

\* the return of a value: the machine s with val in v
returns(s, val) == IF ~Ok(s) THEN s ELSE [s EXCEPT !.v = val]

\* Mmu::store.  The picture unit, the sound unit, the controllers and the
\* mapper are not among the sources: a store to them is recorded on the bus
\* and changes nothing the CPU reads back.
Mmu_store(s, address, val) ==
    IF ~Ok(s) THEN s
    ELSE IF address <= \h1FFF
    THEN IF wram_index(address) >= RAM_LEN THEN panic(s, "bounds", 0)
         ELSE logged([s EXCEPT !.ram = Ram_store(@, wram_index(address), val)],
                     "st", address, val)
    ELSE logged(s, "st", address, val)

\* the byte Mmu::ld8 returns.  Registers of the picture unit, the sound unit
\* and the controllers read 0 here, as the disabled range 0x4000..0x4014 and
\* 0x4018..0x401F does in the code.
Mmu_peek(s, address) ==
    IF address <= \h1FFF THEN Ram_load(s.ram, wram_index(address))
    ELSE IF address <= \h401F THEN 0
    ELSE ld_prg(address)

Mmu_ld8(s, address) ==
    IF ~Ok(s) THEN s
    ELSE IF address <= \h1FFF /\ wram_index(address) >= RAM_LEN
    THEN panic(s, "bounds", 0)
    ELSE returns(logged(s, "ld", address, Mmu_peek(s, address)),
                 Mmu_peek(s, address))

\* (high as u16) << 8 | low as u16, of the byte the machine r just loaded
\* and a byte loaded before it
as_high(r, low) == returns(r, Word(r.v, low))
as_low(r, high) == returns(r, Word(high, r.v))

\* Mmu::ld16 from its second statement on, l the machine after the first
Mmu_ld16_r_byte(l, address) ==
    IF ~Ok(l) THEN l
    ELSE IF Overflows(address + 1, 65536) THEN panic(l, "overflow", 0)
    ELSE as_high(Mmu_ld8(l, Wrap(address + 1, 65536)), l.v)

Mmu_ld16(s, address) == Mmu_ld16_r_byte(Mmu_ld8(s, address), address)

-----------------------------------------------------------------------------
(* Cpu: counters, operand fetch, addressing *)

incr_cc(s) == IF ~Ok(s) THEN s ELSE [s EXCEPT !.cycle_count = @ + 1]

check_pb(s, base, base_offset) ==
    IF Page(base) # Page(base_offset) THEN incr_cc(s) ELSE s

add_unsigned(pc, offset) == (pc + offset) % 65536

\* a variant of add_signed that takes the displacement as unsigned: what C4
\* excludes
add_signed_as_unsigned(pc, offset) == (pc + ((offset + 256) % 256)) % 65536

\* (self.0 as i32 + offset as i32) as u16
add_signed(pc, offset) == Wrap(pc + offset, 65536)

\* an assignment to a register or to a flag, skipped after a panic
set_reg(s, r, val) == IF ~Ok(s) THEN s ELSE [s EXCEPT !.regs[r] = val]
with_flag(s, n, b) ==
    IF ~Ok(s) THEN s ELSE [s EXCEPT !.regs.flags = set_flag(@, n, b)]

\* self.regs.pc.set_addr(v), v the value the machine just returned
set_addr(s) == set_reg(s, "pc", s.v)

\* self.regs.pc.add_unsigned(offset) and self.regs.pc.add_signed(offset)
pc_add_unsigned(s, offset) == set_reg(s, "pc", add_unsigned(s.regs.pc, offset))
pc_add_signed(s, offset) == set_reg(s, "pc", add_signed(s.regs.pc, offset))

ld8_pc_up(s) ==
    IF ~Ok(s) THEN s
    ELSE Mmu_ld8([s EXCEPT !.regs.pc = add_unsigned(@, 1)], s.regs.pc)

ld16_pc_up(s) ==
    IF ~Ok(s) THEN s
    ELSE Mmu_ld16([s EXCEPT !.regs.pc = add_unsigned(@, 2)], s.regs.pc)

\* tmp.wrapping_add(index) on bytes, tmp the byte the machine just returned
wrapping_add_u8(tmp, index) == returns(tmp, (tmp.v + index) % 256)

\* base.wrapping_add(index as u16), base the address the machine just
\* returned, followed by check_pb(base, result) when pb
wrapping_add(base, index, pb) ==
    returns(IF pb THEN check_pb(base, base.v, (base.v + index) % 65536)
            ELSE base,
            (base.v + index) % 65536)

\* base + index as u16, likewise
plus(base, index, pb) ==
    IF ~Ok(base) THEN base
    ELSE IF Overflows(base.v + index, 65536) THEN panic(base, "overflow", 0)
    ELSE wrapping_add(base, index, pb)

\* (self.mmu.ld8(0) as u16) << 8 | (self.mmu.ld8(0xFF) as u16), h the
\* machine after the first load
zp_pointer_wrapped(h) == as_low(Mmu_ld8(h, \hFF), h.v)

\* a variant of the zero-page pointer fetch that reads the two bytes of
\* every pointer through Mmu::ld16: what C19 excludes
zp_pointer_unwrapped(s) ==
    IF ~Ok(s) THEN s ELSE Mmu_ld16(s, s.v)

\* the zero-page pointer fetch shared by IndX, IndY and NoPBIndY, from the
\* zero-page address the machine just returned
zp_pointer(s) ==
    IF ~Ok(s) THEN s
    ELSE IF s.v = \hFF THEN zp_pointer_wrapped(Mmu_ld8(s, 0))
    ELSE Mmu_ld16(s, s.v)

\* a variant of Mode::JmpIndir that reads the high byte after the low byte
\* in every page: what C20 excludes
jmp_indir_high_next(low, tmp) ==
    as_high(Mmu_ld8(low, (tmp + 1) % 65536), low.v)

\* Mode::JmpIndir after let low, tmp the pointer
jmp_indir_high(low, tmp) ==
    as_high(Mmu_ld8(low, IF tmp % 256 = \hFF THEN tmp - \hFF ELSE tmp + 1),
            low.v)

\* Mode::JmpIndir after let tmp
jmp_indir(tmp) == jmp_indir_high(Mmu_ld8(tmp, tmp.v), tmp.v)

\* the effective address is returned in v
address_mem(s, mode) ==
    IF ~Ok(s) THEN s
    ELSE CASE mode = "Imm" ->
              returns([s EXCEPT !.regs.pc = add_unsigned(@, 1)], s.regs.pc)
      [] mode = "ZP" -> ld8_pc_up(s)
      [] mode = "ZPX" -> wrapping_add_u8(ld8_pc_up(s), s.regs.x)
      [] mode = "ZPY" -> wrapping_add_u8(ld8_pc_up(s), s.regs.y)
      [] mode = "Abs" -> ld16_pc_up(s)
      [] mode = "AbsX" -> plus(ld16_pc_up(s), s.regs.x, TRUE)
      [] mode = "AbsY" -> wrapping_add(ld16_pc_up(s), s.regs.y, TRUE)
      [] mode = "NoPBAbsX" -> plus(ld16_pc_up(s), s.regs.x, FALSE)
      [] mode = "NoPBAbsY" -> wrapping_add(ld16_pc_up(s), s.regs.y, FALSE)
      [] mode = "JmpIndir" -> jmp_indir(ld16_pc_up(s))
      [] mode = "IndX" -> zp_pointer(wrapping_add_u8(ld8_pc_up(s), s.regs.x))
      [] mode = "IndY" ->
              wrapping_add(zp_pointer(ld8_pc_up(s)), s.regs.y, TRUE)
      [] mode = "NoPBIndY" ->
              wrapping_add(zp_pointer(ld8_pc_up(s)), s.regs.y, FALSE)

\* self.mmu.ld8(addr), addr the address the machine just returned; the
\* address is kept in addr for the instruction's store
ld8_at(a) == Mmu_ld8([a EXCEPT !.addr = a.v], a.v)

read_op(s, mode) == ld8_at(address_mem(s, mode))

-----------------------------------------------------------------------------
(* Cpu: stores, OAM DMA, the stack *)

\* the body of write_dma's loop, tmp the machine after the load
dma_byte(tmp) == Mmu_store(tmp, OAM_DATA, tmp.v)

\* the loop of write_dma over first..=end, the addresses taken in ascending
\* order; the range is halved, and the first half finished before the second
\* begins, so that the evaluation does not nest 256 deep
RECURSIVE dma_copy(_, _, _)
dma_rest(half, first, end) ==
    IF Len(half.bus) >= 0 THEN dma_copy(half, first, end) ELSE half

dma_copy(s, first, end) ==
    IF first = end THEN dma_byte(Mmu_ld8(s, first))
    ELSE dma_rest(dma_copy(s, first, (first + end) \div 2),
                  (first + end) \div 2 + 1, end)

write_dma(s, high_nyb) ==
    IF ~Ok(s) THEN s
    ELSE dma_copy([s EXCEPT !.cycle_count = @ + 513 + (@ % 2)],
                  high_nyb * 256, high_nyb * 256 + \hFF)

store(s, addr, val) ==
    IF addr = DMA_ADDR THEN write_dma(s, val) ELSE Mmu_store(s, addr, val)

\* self.regs.sp -= 1
sp_down(s) ==
    IF ~Ok(s) THEN s
    ELSE IF Overflows(s.regs.sp - 1, 256) THEN panic(s, "overflow", 0)
    ELSE [s EXCEPT !.regs.sp = Wrap(@ - 1, 256)]

push(s, val) == sp_down(store(s, \h100 + s.regs.sp, val))

pop(s) ==
    IF ~Ok(s) THEN s
    ELSE IF Overflows(s.regs.sp + 1, 256) THEN panic(s, "overflow", 0)
    ELSE Mmu_ld8([s EXCEPT !.regs.sp = Wrap(@ + 1, 256)],
                 \h100 + Wrap(s.regs.sp + 1, 256))

\* pull_pc after let low
pull_pc_high(low) == set_addr(as_high(pop(low), low.v))

pull_pc(s) == pull_pc_high(pop(s))

\* a variant of pull_status that keeps the popped byte's bits 4 and 5: what
\* C14 excludes
set_status_unforced(tmp) ==
    IF ~Ok(tmp) THEN tmp ELSE [tmp EXCEPT !.regs.flags = tmp.v]

\* a variant of pull_status without set_brk(false): what C31 excludes
set_status_keeping_brk(tmp) ==
    IF ~Ok(tmp) THEN tmp
    ELSE [tmp EXCEPT !.regs.flags = set_flag(tmp.v, UNUSED, TRUE)]

\* pull_status after let tmp
set_status(tmp) ==
    IF ~Ok(tmp) THEN tmp
    ELSE [tmp EXCEPT !.regs.flags =
             set_flag(set_flag(tmp.v, UNUSED, TRUE), BRK_BIT, FALSE)]

pull_status(s) == set_status(pop(s))

push_pc(s) == push(push(s, Hi(s.regs.pc)), Lo(s.regs.pc))

set_zero_neg(s, val) ==
    IF ~Ok(s) THEN s
    ELSE [s EXCEPT !.regs.flags =
             set_flag(set_flag(@, NEG, val \div 128 = 1), ZERO, val = 0)]

proc_nmi(s) == set_addr(Mmu_ld16(push(push_pc(s), s.regs.flags), NMI_VEC))

-----------------------------------------------------------------------------
(* Cpu: the instructions.  An instruction that begins with read_op(mode) is *)
(* applied to the machine after that call, val.v being the operand; one     *)
(* that begins with address_mem(mode) and self.mmu.ld8(addr) to the machine *)
(* after both, addr being the address and v the byte; one that begins with  *)
(* address_mem(mode) alone to the machine after it, addr.v being the        *)
(* address.  execute_op makes these calls with the mode it names.           *)

and(val) ==
    LET tmp == BitAnd(val.regs.acc, val.v)
    IN  set_reg(set_zero_neg(val, tmp), "acc", tmp)

ora(val) ==
    LET tmp == BitOr(val.regs.acc, val.v)
    IN  set_reg(set_zero_neg(val, tmp), "acc", tmp)

eor(val) ==
    LET tmp == BitXor(val.regs.acc, val.v)
    IN  set_reg(set_zero_neg(val, tmp), "acc", tmp)

\* a variant of adc_val that adjusts the sum to a decimal digit when the
\* decimal flag is set: what C25 excludes
adc_val_decimal(s, val) ==
    LET acc == s.regs.acc
        c == IF flag(s.regs.flags, CARRY) THEN 1 ELSE 0
        tmp == acc + val + c
                 + (IF flag(s.regs.flags, DEC) /\ (acc % 16) + (val % 16) + c > 9
                    THEN 6 ELSE 0)
    IN  set_reg(set_zero_neg(
                    with_flag(with_flag(s, CARRY, tmp > \hFF), OVERFLOW,
                        BitAnd(BitAnd(BitXor(acc, tmp), BitXor(val, tmp)),
                               \h80) # 0),
                    tmp % 256),
                "acc", tmp % 256)

\* a variant of adc_val that adds without the carry-in: what C16 excludes
adc_val_without_carry_in(s, val) ==
    LET acc == s.regs.acc
        tmp == acc + val
    IN  set_reg(set_zero_neg(
                    with_flag(with_flag(s, CARRY, tmp > \hFF), OVERFLOW,
                        BitAnd(BitAnd(BitXor(acc, tmp), BitXor(val, tmp)),
                               \h80) # 0),
                    tmp % 256),
                "acc", tmp % 256)

adc_val(s, val) ==
    LET acc == s.regs.acc
        tmp == acc + val + (IF flag(s.regs.flags, CARRY) THEN 1 ELSE 0)
    IN  set_reg(set_zero_neg(
                    with_flag(with_flag(s, CARRY, tmp > \hFF), OVERFLOW,
                        BitAnd(BitAnd(BitXor(acc, tmp), BitXor(val, tmp)),
                               \h80) # 0),
                    tmp % 256),
                "acc", tmp % 256)

adc(val) == adc_val(val, val.v)

\* a variant of sbc that adds the two's complement of the operand: what C17
\* excludes
sbc_negating(val) == adc_val(val, (256 - val.v) % 256)

sbc(val) == adc_val(val, BitXor(val.v, \hFF))

\* a register is given the byte the machine just returned
load_reg(val, r) == set_zero_neg(set_reg(val, r, val.v), val.v)

lda(val) == load_reg(val, "acc")
ldx(val) == load_reg(val, "x")
ldy(val) == load_reg(val, "y")

\* (result, carry out) of the rotates
get_ror(carry_flag, val) ==
    <<BitOr(val \div 2, (IF carry_flag THEN 1 ELSE 0) * 128), val % 2 # 0>>

get_rol(carry_flag, val) ==
    <<BitOr((val * 2) % 256, IF carry_flag THEN 1 ELSE 0), BitAnd(val, \h80) # 0>>

ror_acc(s) ==
    LET r == get_ror(flag(s.regs.flags, CARRY), s.regs.acc)
    IN  set_reg(set_zero_neg(with_flag(s, CARRY, r[2]), r[1]), "acc", r[1])

ror_addr(val) ==
    LET r == get_ror(flag(val.regs.flags, CARRY), val.v)
    IN  store(set_zero_neg(with_flag(val, CARRY, r[2]), r[1]), val.addr, r[1])

rol_acc(s) ==
    LET r == get_rol(flag(s.regs.flags, CARRY), s.regs.acc)
    IN  set_reg(set_zero_neg(with_flag(s, CARRY, r[2]), r[1]), "acc", r[1])

rol_addr(val) ==
    LET r == get_rol(flag(val.regs.flags, CARRY), val.v)
    IN  store(set_zero_neg(with_flag(val, CARRY, r[2]), r[1]), val.addr, r[1])

asl_acc(s) ==
    LET acc == s.regs.acc
        tmp == (acc * 2) % 256
    IN  set_reg(set_zero_neg(with_flag(s, CARRY, acc \div 128 # 0), tmp),
                "acc", tmp)

asl_addr(val) ==
    LET tmp == (val.v * 2) % 256
    IN  store(set_zero_neg(with_flag(val, CARRY, val.v \div 128 # 0), tmp),
              val.addr, tmp)

lsr_acc(s) ==
    LET acc == s.regs.acc
        tmp == acc \div 2
    IN  set_reg(set_zero_neg(with_flag(s, CARRY, acc % 2 # 0), tmp),
                "acc", tmp)

lsr_addr(val) ==
    LET tmp == val.v \div 2
    IN  store(set_zero_neg(with_flag(val, CARRY, val.v % 2 # 0), tmp),
              val.addr, tmp)

\* the body cpx, cpy and cmp share: reg as i16 - val as i16
\* a variant of the comparisons that sets carry only when the register is
\* greater: what C18 excludes
compare_strictly(val, reg) ==
    LET tmp == reg - val.v
    IN  set_zero_neg(with_flag(val, CARRY, tmp > 0), Wrap(tmp, 256))

compare(val, reg) ==
    LET tmp == reg - val.v
    IN  set_zero_neg(with_flag(val, CARRY, tmp >= 0), Wrap(tmp, 256))

cpx(val) == compare(val, val.regs.x)
cpy(val) == compare(val, val.regs.y)
cmp(val) == compare(val, val.regs.acc)

\* generic_branch after let val, with the page of own in the place of the
\* page of addr
branch_from(val, flag_, own) ==
    LET new_addr == add_signed(val.regs.pc, AsI8(val.v))
    IN  IF flag_
        THEN check_pb(incr_cc(set_reg(val, "pc", new_addr)), own, new_addr)
        ELSE val

\* a variant of generic_branch that compares the target's page with the page
\* of the branch opcode's own address: what C3's amended statement excludes
generic_branch_own_page(s, flag_) ==
    branch_from(ld8_pc_up(s), flag_, add_signed(s.regs.pc, -1))

\* generic_branch after let val
branch(val, flag_) ==
    LET addr == val.regs.pc
        new_addr == add_signed(addr, AsI8(val.v))
    IN  IF flag_
        THEN check_pb(incr_cc(set_reg(val, "pc", new_addr)), addr, new_addr)
        ELSE val

generic_branch(s, flag_) == branch(ld8_pc_up(s), flag_)

bit(val) ==
    with_flag(with_flag(with_flag(val, ZERO, BitAnd(val.v, val.regs.acc) = 0),
                        OVERFLOW, BitAnd(val.v, \h40) # 0),
              NEG, BitAnd(val.v, \h80) # 0)

dec(ld) ==
    LET val == Wrap(ld.v - 1, 256)
    IN  store(set_zero_neg(ld, val), ld.addr, val)

inc(ld) ==
    LET val == (ld.v + 1) % 256
    IN  store(set_zero_neg(ld, val), ld.addr, val)

sta(addr) == store(addr, addr.v, addr.regs.acc)
stx(addr) == store(addr, addr.v, addr.regs.x)
sty(addr) == store(addr, addr.v, addr.regs.y)

jmp(addr) == set_addr(addr)

tax(s) == set_zero_neg(set_reg(s, "x", s.regs.acc), s.regs.acc)

\* the arm of JSR after let addr
jsr(addr) == set_reg(push_pc(pc_add_signed(addr, -1)), "pc", addr.v)

\* the arm of BRK
brk(s) ==
    set_addr(Mmu_ld16(with_flag(push(push_pc(pc_add_signed(s, 1)),
                                     BitOr(s.regs.flags, 16)),
                                ITR, TRUE),
                      IRQ_VEC))

-----------------------------------------------------------------------------
(* Cpu: the undocumented instructions *)

\* self.regs.flags.set_carry(self.regs.flags.neg())
carry_as_neg(s) == with_flag(s, CARRY, flag(s.regs.flags, NEG))

aac(val) ==
    LET acc == BitAnd(val.regs.acc, val.v)
    IN  carry_as_neg(set_zero_neg(set_reg(val, "acc", acc), acc))

aax(addr) == store(addr, addr.v, BitAnd(addr.regs.acc, addr.regs.x))

arr(val) ==
    LET new_acc == BitOr(BitAnd(val.regs.acc, val.v) \div 2,
                         (IF flag(val.regs.flags, CARRY) THEN 1 ELSE 0) * 128)
        b6 == BitOf(new_acc, 6)
        b5 == BitOf(new_acc, 5)
    IN  set_reg(set_zero_neg(with_flag(with_flag(val, CARRY, b6 = 1),
                                       OVERFLOW, b6 # b5),
                             new_acc),
                "acc", new_acc)

lax(val) == set_zero_neg(set_reg(set_reg(val, "acc", val.v), "x", val.v), val.v)

axs(val) ==
    LET tmp == BitAnd(val.regs.x, val.regs.acc)
        res == Wrap(tmp - val.v, 256)
    IN  set_reg(set_zero_neg(with_flag(val, CARRY, tmp >= val.v), res), "x", res)

\* a variant of dcp that compares the byte it loaded, not the byte it
\* stored: what C21 excludes
dcp_comparing_loaded(ld) ==
    LET val == Wrap(ld.v - 1, 256)
        tmp == ld.regs.acc - ld.v
    IN  set_zero_neg(with_flag(store(set_zero_neg(ld, val), ld.addr, val),
                               CARRY, tmp >= 0),
                     Wrap(tmp, 256))

dcp(ld) ==
    LET val == Wrap(ld.v - 1, 256)
        tmp == ld.regs.acc - val
    IN  set_zero_neg(with_flag(store(set_zero_neg(ld, val), ld.addr, val),
                               CARRY, tmp >= 0),
                     Wrap(tmp, 256))

isc(ld) ==
    LET val == (ld.v + 1) % 256
    IN  adc_val(store(set_zero_neg(ld, val), ld.addr, val), BitXor(val, \hFF))

slo(val) ==
    LET tmp == (val.v * 2) % 256
        res == BitOr(val.regs.acc, tmp)
    IN  set_reg(set_zero_neg(store(with_flag(val, CARRY, val.v \div 128 # 0),
                                   val.addr, tmp),
                             res),
                "acc", res)

rla(val) ==
    LET r == get_rol(flag(val.regs.flags, CARRY), val.v)
        res == BitAnd(val.regs.acc, r[1])
    IN  set_reg(set_zero_neg(store(with_flag(val, CARRY, r[2]), val.addr, r[1]),
                             res),
                "acc", res)

sre(val) ==
    LET tmp == val.v \div 2
        res == BitXor(val.regs.acc, tmp)
    IN  set_reg(set_zero_neg(store(with_flag(val, CARRY, val.v % 2 # 0),
                                   val.addr, tmp),
                             res),
                "acc", res)

rra(val) ==
    LET r == get_ror(flag(val.regs.flags, CARRY), val.v)
    IN  adc_val(store(set_zero_neg(with_flag(val, CARRY, r[2]), r[1]),
                      val.addr, r[1]),
                r[1])

alr(val) ==
    LET acc == BitAnd(val.regs.acc, val.v)
        tmp == acc \div 2
    IN  set_reg(set_zero_neg(with_flag(val, CARRY, acc % 2 # 0), tmp), "acc", tmp)

atx(val) == tax(lda(val))

\* the body sya and sxa share: reg is stored, index is the register the
\* addressing mode added
store_high_and(a, reg, index) ==
    LET crossed == Page(a.v) # Page(Wrap(a.v - index, 65536))
        addr == IF crossed THEN BitAnd(a.v, reg * 256) ELSE a.v
    IN  IF ~Ok(a) THEN a
        ELSE IF Overflows(a.v - index, 65536) \/ Overflows(Hi(addr) + 1, 256)
        THEN panic(a, "overflow", 0)
        ELSE store(a, addr, BitAnd(reg, (Hi(addr) + 1) % 256))

sya(addr) == store_high_and(addr, addr.regs.y, addr.regs.x)
sxa(addr) == store_high_and(addr, addr.regs.x, addr.regs.y)

-----------------------------------------------------------------------------
(* Cpu: dispatch and step *)

execute_op(s, op) ==
    IF ~Ok(s) THEN s
    ELSE CASE op = cpu_const.INC_ABSX -> inc(ld8_at(address_mem(s, "AbsX")))
          [] op = cpu_const.INC_ZPX -> inc(ld8_at(address_mem(s, "ZPX")))
          [] op = cpu_const.INC_ABS -> inc(ld8_at(address_mem(s, "Abs")))
          [] op = cpu_const.INC_ZP -> inc(ld8_at(address_mem(s, "ZP")))
          [] op \in {cpu_const.SBC_IMM, \hEB} -> sbc(read_op(s, "Imm"))
          [] op = cpu_const.SBC_ABSX -> sbc(read_op(s, "AbsX"))
          [] op = cpu_const.SBC_ABSY -> sbc(read_op(s, "AbsY"))
          [] op = cpu_const.SBC_ABS -> sbc(read_op(s, "Abs"))
          [] op = cpu_const.SBC_INDY -> sbc(read_op(s, "IndY"))
          [] op = cpu_const.SBC_INDX -> sbc(read_op(s, "IndX"))
          [] op = cpu_const.SBC_ZPX -> sbc(read_op(s, "ZPX"))
          [] op = cpu_const.SBC_ZP -> sbc(read_op(s, "ZP"))
          [] op = cpu_const.CPX_IMM -> cpx(read_op(s, "Imm"))
          [] op = cpu_const.CPX_ABS -> cpx(read_op(s, "Abs"))
          [] op = cpu_const.CPX_ZP -> cpx(read_op(s, "ZP"))
          [] op = cpu_const.LDX_IMM -> ldx(read_op(s, "Imm"))
          [] op = cpu_const.LDX_ZPY -> ldx(read_op(s, "ZPY"))
          [] op = cpu_const.LDX_ABS -> ldx(read_op(s, "Abs"))
          [] op = cpu_const.LDX_ABSY -> ldx(read_op(s, "AbsY"))
          [] op = cpu_const.LDX_ZP -> ldx(read_op(s, "ZP"))
          [] op = cpu_const.DEC_ZPX -> dec(ld8_at(address_mem(s, "ZPX")))
          [] op = cpu_const.DEC_ABS -> dec(ld8_at(address_mem(s, "Abs")))
          [] op = cpu_const.DEC_ABSX -> dec(ld8_at(address_mem(s, "AbsX")))
          [] op = cpu_const.DEC_ZP -> dec(ld8_at(address_mem(s, "ZP")))
          [] op = cpu_const.CMP_IMM -> cmp(read_op(s, "Imm"))
          [] op = cpu_const.CMP_ABSX -> cmp(read_op(s, "AbsX"))
          [] op = cpu_const.CMP_ABSY -> cmp(read_op(s, "AbsY"))
          [] op = cpu_const.CMP_ZPX -> cmp(read_op(s, "ZPX"))
          [] op = cpu_const.CMP_INDY -> cmp(read_op(s, "IndY"))
          [] op = cpu_const.CMP_ABS -> cmp(read_op(s, "Abs"))
          [] op = cpu_const.CMP_ZP -> cmp(read_op(s, "ZP"))
          [] op = cpu_const.CMP_INDX -> cmp(read_op(s, "IndX"))
          [] op = cpu_const.CPY_IMM -> cpy(read_op(s, "Imm"))
          [] op = cpu_const.CPY_ZP -> cpy(read_op(s, "ZP"))
          [] op = cpu_const.CPY_ABS -> cpy(read_op(s, "Abs"))
          [] op = cpu_const.LDA_IMM -> lda(read_op(s, "Imm"))
          [] op = cpu_const.LDA_ABSX -> lda(read_op(s, "AbsX"))
          [] op = cpu_const.LDA_ABSY -> lda(read_op(s, "AbsY"))
          [] op = cpu_const.LDA_ZPX -> lda(read_op(s, "ZPX"))
          [] op = cpu_const.LDA_INDY -> lda(read_op(s, "IndY"))
          [] op = cpu_const.LDA_ABS -> lda(read_op(s, "Abs"))
          [] op = cpu_const.LDA_ZP -> lda(read_op(s, "ZP"))
          [] op = cpu_const.LDA_INDX -> lda(read_op(s, "IndX"))
          [] op = cpu_const.LDY_IMM -> ldy(read_op(s, "Imm"))
          [] op = cpu_const.LDY_ZPX -> ldy(read_op(s, "ZPX"))
          [] op = cpu_const.LDY_ABS -> ldy(read_op(s, "Abs"))
          [] op = cpu_const.LDY_ABSX -> ldy(read_op(s, "AbsX"))
          [] op = cpu_const.LDY_ZP -> ldy(read_op(s, "ZP"))
          [] op = cpu_const.STA_ABSX -> sta(address_mem(s, "NoPBAbsX"))
          [] op = cpu_const.STA_ABSY -> sta(address_mem(s, "NoPBAbsY"))
          [] op = cpu_const.STA_ZPX -> sta(address_mem(s, "ZPX"))
          [] op = cpu_const.STA_INDY -> sta(address_mem(s, "NoPBIndY"))
          [] op = cpu_const.STA_ABS -> sta(address_mem(s, "Abs"))
          [] op = cpu_const.STA_ZP -> sta(address_mem(s, "ZP"))
          [] op = cpu_const.STA_INDX -> sta(address_mem(s, "IndX"))
          [] op = cpu_const.STX_ABS -> stx(address_mem(s, "Abs"))
          [] op = cpu_const.STX_ZP -> stx(address_mem(s, "ZP"))
          [] op = cpu_const.STX_ZPY -> stx(address_mem(s, "ZPY"))
          [] op = cpu_const.STY_ABS -> sty(address_mem(s, "Abs"))
          [] op = cpu_const.STY_ZP -> sty(address_mem(s, "ZP"))
          [] op = cpu_const.STY_ZPX -> sty(address_mem(s, "ZPX"))
          [] op = cpu_const.ADC_IMM -> adc(read_op(s, "Imm"))
          [] op = cpu_const.ADC_ABSX -> adc(read_op(s, "AbsX"))
          [] op = cpu_const.ADC_ABSY -> adc(read_op(s, "AbsY"))
          [] op = cpu_const.ADC_ZPX -> adc(read_op(s, "ZPX"))
          [] op = cpu_const.ADC_INDY -> adc(read_op(s, "IndY"))
          [] op = cpu_const.ADC_ABS -> adc(read_op(s, "Abs"))
          [] op = cpu_const.ADC_ZP -> adc(read_op(s, "ZP"))
          [] op = cpu_const.ADC_INDX -> adc(read_op(s, "IndX"))
          [] op = cpu_const.ROR_ABSX -> ror_addr(ld8_at(address_mem(s, "NoPBAbsX")))
          [] op = cpu_const.ROR_ZPX -> ror_addr(ld8_at(address_mem(s, "ZPX")))
          [] op = cpu_const.ROR_ZP -> ror_addr(ld8_at(address_mem(s, "ZP")))
          [] op = cpu_const.ROR_ABS -> ror_addr(ld8_at(address_mem(s, "Abs")))
          [] op = cpu_const.ROR_ACC -> ror_acc(s)
          [] op = cpu_const.EOR_IMM -> eor(read_op(s, "Imm"))
          [] op = cpu_const.EOR_ABSX -> eor(read_op(s, "AbsX"))
          [] op = cpu_const.EOR_ABSY -> eor(read_op(s, "AbsY"))
          [] op = cpu_const.EOR_ZPX -> eor(read_op(s, "ZPX"))
          [] op = cpu_const.EOR_INDY -> eor(read_op(s, "IndY"))
          [] op = cpu_const.EOR_ABS -> eor(read_op(s, "Abs"))
          [] op = cpu_const.EOR_ZP -> eor(read_op(s, "ZP"))
          [] op = cpu_const.EOR_INDX -> eor(read_op(s, "IndX"))
          [] op = cpu_const.LSR_ABSX -> lsr_addr(ld8_at(address_mem(s, "AbsX")))
          [] op = cpu_const.LSR_ZPX -> lsr_addr(ld8_at(address_mem(s, "ZPX")))
          [] op = cpu_const.LSR_ABS -> lsr_addr(ld8_at(address_mem(s, "Abs")))
          [] op = cpu_const.LSR_ZP -> lsr_addr(ld8_at(address_mem(s, "ZP")))
          [] op = cpu_const.LSR_ACC -> lsr_acc(s)
          [] op = cpu_const.JMP_ABS -> jmp(address_mem(s, "Abs"))
          [] op = cpu_const.ROL_ABS -> rol_addr(ld8_at(address_mem(s, "Abs")))
          [] op = cpu_const.ROL_ABSX -> rol_addr(ld8_at(address_mem(s, "NoPBAbsX")))
          [] op = cpu_const.ROL_ZPX -> rol_addr(ld8_at(address_mem(s, "ZPX")))
          [] op = cpu_const.ROL_ZP -> rol_addr(ld8_at(address_mem(s, "ZP")))
          [] op = cpu_const.ROL_ACC -> rol_acc(s)
          [] op = cpu_const.AND_IMM -> and(read_op(s, "Imm"))
          [] op = cpu_const.AND_ZP -> and(read_op(s, "ZP"))
          [] op = cpu_const.AND_ABSX -> and(read_op(s, "AbsX"))
          [] op = cpu_const.AND_ABSY -> and(read_op(s, "AbsY"))
          [] op = cpu_const.AND_INDY -> and(read_op(s, "IndY"))
          [] op = cpu_const.AND_ABS -> and(read_op(s, "Abs"))
          [] op = cpu_const.AND_INDX -> and(read_op(s, "IndX"))
          [] op = cpu_const.AND_ZPX -> and(read_op(s, "ZPX"))
          [] op = cpu_const.BIT_ABS -> bit(read_op(s, "Abs"))
          [] op = cpu_const.BIT_ZP -> bit(read_op(s, "ZP"))
          [] op = cpu_const.ORA_IMM -> ora(read_op(s, "Imm"))
          [] op = cpu_const.ORA_ABSX -> ora(read_op(s, "AbsX"))
          [] op = cpu_const.ORA_ABSY -> ora(read_op(s, "AbsY"))
          [] op = cpu_const.ORA_ZPX -> ora(read_op(s, "ZPX"))
          [] op = cpu_const.ORA_INDY -> ora(read_op(s, "IndY"))
          [] op = cpu_const.ORA_ABS -> ora(read_op(s, "Abs"))
          [] op = cpu_const.ORA_ZP -> ora(read_op(s, "ZP"))
          [] op = cpu_const.ORA_INDX -> ora(read_op(s, "IndX"))
          [] op = cpu_const.ASL_ABSX -> asl_addr(ld8_at(address_mem(s, "NoPBAbsX")))
          [] op = cpu_const.ASL_ABS -> asl_addr(ld8_at(address_mem(s, "Abs")))
          [] op = cpu_const.ASL_ZP -> asl_addr(ld8_at(address_mem(s, "ZP")))
          [] op = cpu_const.ASL_ZPX -> asl_addr(ld8_at(address_mem(s, "ZPX")))
          [] op = cpu_const.ASL_ACC -> asl_acc(s)
          [] op \in {\h0B, \h2B} -> aac(read_op(s, "Imm"))
          [] op = \h87 -> aax(address_mem(s, "ZP"))
          [] op = \h97 -> aax(address_mem(s, "ZPY"))
          [] op = \h83 -> aax(address_mem(s, "IndX"))
          [] op = \h8F -> aax(address_mem(s, "Abs"))
          [] op = \h6B -> arr(read_op(s, "Imm"))
          [] op = \hA7 -> lax(read_op(s, "ZP"))
          [] op = \hB7 -> lax(read_op(s, "ZPY"))
          [] op = \hAF -> lax(read_op(s, "Abs"))
          [] op = \hBF -> lax(read_op(s, "AbsY"))
          [] op = \hA3 -> lax(read_op(s, "IndX"))
          [] op = \hB3 -> lax(read_op(s, "IndY"))
          [] op = \hC7 -> dcp(ld8_at(address_mem(s, "ZP")))
          [] op = \hD7 -> dcp(ld8_at(address_mem(s, "ZPX")))
          [] op = \hCF -> dcp(ld8_at(address_mem(s, "Abs")))
          [] op = \hDF -> dcp(ld8_at(address_mem(s, "NoPBAbsX")))
          [] op = \hDB -> dcp(ld8_at(address_mem(s, "NoPBAbsY")))
          [] op = \hC3 -> dcp(ld8_at(address_mem(s, "IndX")))
          [] op = \hD3 -> dcp(ld8_at(address_mem(s, "NoPBIndY")))
          [] op = \hE7 -> isc(ld8_at(address_mem(s, "ZP")))
          [] op = \hF7 -> isc(ld8_at(address_mem(s, "ZPX")))
          [] op = \hEF -> isc(ld8_at(address_mem(s, "Abs")))
          [] op = \hFF -> isc(ld8_at(address_mem(s, "NoPBAbsX")))
          [] op = \hFB -> isc(ld8_at(address_mem(s, "NoPBAbsY")))
          [] op = \hE3 -> isc(ld8_at(address_mem(s, "IndX")))
          [] op = \hF3 -> isc(ld8_at(address_mem(s, "NoPBIndY")))
          [] op = \h07 -> slo(ld8_at(address_mem(s, "ZP")))
          [] op = \h17 -> slo(ld8_at(address_mem(s, "ZPX")))
          [] op = \h0F -> slo(ld8_at(address_mem(s, "Abs")))
          [] op = \h1F -> slo(ld8_at(address_mem(s, "NoPBAbsX")))
          [] op = \h1B -> slo(ld8_at(address_mem(s, "NoPBAbsY")))
          [] op = \h03 -> slo(ld8_at(address_mem(s, "IndX")))
          [] op = \h13 -> slo(ld8_at(address_mem(s, "NoPBIndY")))
          [] op = \h27 -> rla(ld8_at(address_mem(s, "ZP")))
          [] op = \h37 -> rla(ld8_at(address_mem(s, "ZPX")))
          [] op = \h2F -> rla(ld8_at(address_mem(s, "Abs")))
          [] op = \h3F -> rla(ld8_at(address_mem(s, "NoPBAbsX")))
          [] op = \h3B -> rla(ld8_at(address_mem(s, "NoPBAbsY")))
          [] op = \h23 -> rla(ld8_at(address_mem(s, "IndX")))
          [] op = \h33 -> rla(ld8_at(address_mem(s, "NoPBIndY")))
          [] op = \h47 -> sre(ld8_at(address_mem(s, "ZP")))
          [] op = \h57 -> sre(ld8_at(address_mem(s, "ZPX")))
          [] op = \h4F -> sre(ld8_at(address_mem(s, "Abs")))
          [] op = \h5F -> sre(ld8_at(address_mem(s, "NoPBAbsX")))
          [] op = \h5B -> sre(ld8_at(address_mem(s, "NoPBAbsY")))
          [] op = \h53 -> sre(ld8_at(address_mem(s, "NoPBIndY")))
          [] op = \h43 -> sre(ld8_at(address_mem(s, "IndX")))
          [] op = \h67 -> rra(ld8_at(address_mem(s, "ZP")))
          [] op = \h77 -> rra(ld8_at(address_mem(s, "ZPX")))
          [] op = \h6F -> rra(ld8_at(address_mem(s, "Abs")))
          [] op = \h7F -> rra(ld8_at(address_mem(s, "NoPBAbsX")))
          [] op = \h7B -> rra(ld8_at(address_mem(s, "NoPBAbsY")))
          [] op = \h63 -> rra(ld8_at(address_mem(s, "IndX")))
          [] op = \h73 -> rra(ld8_at(address_mem(s, "NoPBIndY")))
          [] op = \h4B -> alr(read_op(s, "Imm"))
          [] op = \h9C -> sya(address_mem(s, "NoPBAbsX"))
          [] op = \h9E -> sxa(address_mem(s, "NoPBAbsY"))
          [] op = \hAB -> atx(read_op(s, "Imm"))
          [] op = \hCB -> axs(read_op(s, "Imm"))
          [] op = cpu_const.RTS -> pc_add_unsigned(pull_pc(s), 1)
          [] op = cpu_const.RTI -> pull_pc(pull_status(s))
          [] op = cpu_const.SED -> with_flag(s, DEC, TRUE)
          [] op = cpu_const.CLC -> with_flag(s, CARRY, FALSE)
          [] op = cpu_const.SEC -> with_flag(s, CARRY, TRUE)
          [] op = cpu_const.CLI -> with_flag(s, ITR, FALSE)
          [] op = cpu_const.SEI -> with_flag(s, ITR, TRUE)
          [] op = cpu_const.CLV -> with_flag(s, OVERFLOW, FALSE)
          [] op = cpu_const.CLD -> with_flag(s, DEC, FALSE)
          [] op \in {cpu_const.NOP, \h1A, \h3A, \h5A, \h7A, \hDA, \hFA} -> s
          [] op \in {\h14, \h34, \h44, \h54, \h64, \h74, \h80, \h82, \h89,
                     \hC2, \hD4, \hE2, \hF4, \h04} ->
                pc_add_signed(s, 1)
          [] op = \h0C -> pc_add_signed(s, 2)
          [] op \in {\h1C, \h3C, \h5C, \h7C, \hDC, \hFC} ->
                address_mem(s, "AbsX")
          [] op = cpu_const.BRK -> brk(s)
          [] op = cpu_const.TAX -> tax(s)
          [] op = cpu_const.TXA -> set_zero_neg(set_reg(s, "acc", s.regs.x), s.regs.x)
          [] op = cpu_const.TAY -> set_zero_neg(set_reg(s, "y", s.regs.acc), s.regs.acc)
          [] op = cpu_const.TYA -> set_zero_neg(set_reg(s, "acc", s.regs.y), s.regs.y)
          [] op = cpu_const.DEX ->
                LET x == Wrap(s.regs.x - 1, 256)
                IN  set_zero_neg(set_reg(s, "x", x), x)
          [] op = cpu_const.INX ->
                LET x == (s.regs.x + 1) % 256
                IN  set_zero_neg(set_reg(s, "x", x), x)
          [] op = cpu_const.DEY ->
                LET y == Wrap(s.regs.y - 1, 256)
                IN  set_zero_neg(set_reg(s, "y", y), y)
          [] op = cpu_const.INY ->
                LET y == (s.regs.y + 1) % 256
                IN  set_zero_neg(set_reg(s, "y", y), y)
          [] op = cpu_const.TSX -> set_zero_neg(set_reg(s, "x", s.regs.sp), s.regs.sp)
          [] op = cpu_const.TXS -> set_reg(s, "sp", s.regs.x)
          [] op = cpu_const.PHA -> push(s, s.regs.acc)
          [] op = cpu_const.PLA -> load_reg(pop(s), "acc")
          [] op = cpu_const.PHP -> push(s, BitOr(s.regs.flags, 16))
          [] op = cpu_const.PLP -> pull_status(s)
          [] op = cpu_const.BVS -> generic_branch(s, flag(s.regs.flags, OVERFLOW))
          [] op = cpu_const.BVC -> generic_branch(s, ~flag(s.regs.flags, OVERFLOW))
          [] op = cpu_const.BMI -> generic_branch(s, flag(s.regs.flags, NEG))
          [] op = cpu_const.BPL -> generic_branch(s, ~flag(s.regs.flags, NEG))
          [] op = cpu_const.BNE -> generic_branch(s, ~flag(s.regs.flags, ZERO))
          [] op = cpu_const.BEQ -> generic_branch(s, flag(s.regs.flags, ZERO))
          [] op = cpu_const.BCS -> generic_branch(s, flag(s.regs.flags, CARRY))
          [] op = cpu_const.BCC -> generic_branch(s, ~flag(s.regs.flags, CARRY))
          [] op = cpu_const.JSR -> jsr(address_mem(s, "Abs"))
          [] op = cpu_const.JMP_IND -> jmp(address_mem(s, "JmpIndir"))
          [] OTHER -> panic(s, "unsupported_op", op)

\* step after let byte: self.cycle_count += CYCLES[byte as usize];
\* self.execute_op(byte)
fetched(byte) ==
    execute_op([byte EXCEPT !.cycle_count = @ + Cycles(byte.v)], byte.v)

\* the return of the counter without its reset
count_kept(s) == returns(s, s.cycle_count)

\* a variant of step that leaves the counter as the instruction left it:
\* what C9 excludes
step_keeping_count(s) == count_kept(fetched(ld8_pc_up(s)))

\* step after self.execute_op(byte): the counter is logged, cleared and
\* returned
step_end(s) ==
    IF ~Ok(s) THEN s
    ELSE [s EXCEPT !.v = s.cycle_count,
                   !.cc = IF log_debug THEN @ + s.cycle_count ELSE @,
                   !.cycle_count = 0]

\* Cpu::step: the machine after the call, the cycle count it returns in v
step(s) == step_end(fetched(ld8_pc_up(s)))

\* a variant of self.regs.reset(addr) that leaves the stack pointer where
\* it was: what C22 excludes
regs_reset_keeping_sp(s) ==
    IF ~Ok(s) THEN s
    ELSE [s EXCEPT !.regs = [Registers_reset(@, s.v) EXCEPT !.sp = s.regs.sp]]

\* self.regs.reset(addr), addr the vector the machine just returned
regs_reset(s) ==
    IF ~Ok(s) THEN s ELSE [s EXCEPT !.regs = Registers_reset(@, s.v)]

\* Cpu::reset
reset(s) ==
    regs_reset(Mmu_ld16([s EXCEPT !.cycle_count = 0, !.cc = 0], RESET_VEC))

-----------------------------------------------------------------------------
(* Cartridges: the PRG images the model runs.  An image is a function from  *)
(* PRG addresses (0x4020..0xFFFF) to bytes.                                *)

\* bytes laid out from origin; what runs past 0xFFFF or below 0x4020 is not
\* PRG and is dropped
Place(origin, bytes) ==
    [a \in {origin + i - 1 : i \in 1..Len(bytes)} \cap (\h4020..\hFFFF)
        |-> bytes[a - origin + 1]]

Merge(f, g) ==
    [a \in DOMAIN f \cup DOMAIN g |-> IF a \in DOMAIN g THEN g[a] ELSE f[a]]

CODE == \h8000
NMI_HANDLER == \h9000
IRQ_HANDLER == \h9010
SUBROUTINE == \h9020

\* the three vectors
Vectors ==
    Place(NMI_VEC, <<Lo(NMI_HANDLER), Hi(NMI_HANDLER), Lo(CODE), Hi(CODE),
                     Lo(IRQ_HANDLER), Hi(IRQ_HANDLER)>>)

\* an RTI at each interrupt handler and an RTS at SUBROUTINE
Handlers ==
    Merge(Merge(Place(NMI_HANDLER, <<cpu_const.RTI>>),
                Place(IRQ_HANDLER, <<cpu_const.RTI>>)),
          Place(SUBROUTINE, <<cpu_const.RTS>>))

\* an image running setup from CODE and then test: at CODE + Len(setup) when
\* origin is 0, and else at origin, reached by a JMP
Cartridge(setup, origin, test) ==
    IF origin = 0
    THEN Merge(Vectors, Place(CODE, setup \o test))
    ELSE Merge(Merge(Vectors,
                     Place(CODE, setup \o <<cpu_const.JMP_ABS, Lo(origin), Hi(origin)>>)),
               Place(origin, test))

\* stack traffic at every edge of the stack page, with returning handlers
StackPointers == {\h00, \h01, \h02, \hFD, \hFE, \hFF}
StackTests ==
    LET C == cpu_const
    IN  { <<C.PHA, C.PLA>>, <<C.PHP, C.PLP>>, <<C.PLA, C.PHA>>, <<C.PLP, C.PHP>>,
          <<C.JSR, Lo(SUBROUTINE), Hi(SUBROUTINE)>>, <<C.BRK, C.NOP, C.NOP>>,
          <<C.RTS>>, <<C.RTI>> }
StackCarts ==
    LET C == cpu_const
    IN  { Merge(Handlers, Cartridge(<<C.LDX_IMM, sp, C.TXS, C.LDA_IMM, a>>, 0, test)) :
            sp \in StackPointers, a \in {\h00, \hFF}, test \in StackTests }

\* the eight branches under each single flag, around a page boundary and at
\* the top of the address space
BranchOps ==
    LET C == cpu_const
    IN  {C.BVS, C.BVC, C.BMI, C.BPL, C.BNE, C.BEQ, C.BCS, C.BCC}
BranchFlags == {\h01, \h02, \h40, \h80}
Displacements == {\h05, \h7F, \h80, \hFB}
BranchOrigins == {\h80FD, \h80FE, \hFFFE}
BranchCarts ==
    LET C == cpu_const
    IN  { Cartridge(<<C.LDA_IMM, f, C.PHA, C.PLP>>, origin, <<op, d>>) :
            f \in BranchFlags, origin \in BranchOrigins, op \in BranchOps,
            d \in Displacements }

\* every addressing mode, read and store, over bases and indexes that do and
\* do not cross a page, and with the operand bytes at 0xFFFF
Indexes == {\h00, \h01, \hFF}
Bases == {\h0210, \h02FF, \hFF80, \hFFFF}
AbsOps ==
    LET C == cpu_const
    IN  { C.LDA_ABS, C.STA_ABS, C.JMP_ABS,
          C.LDA_ABSX, C.LDY_ABSX, C.ADC_ABSX, C.AND_ABSX, C.CMP_ABSX,
          C.EOR_ABSX, C.ORA_ABSX, C.SBC_ABSX, \h1C, C.STA_ABSX,
          C.LDA_ABSY, C.LDX_ABSY, C.ADC_ABSY, C.AND_ABSY, C.CMP_ABSY,
          C.EOR_ABSY, C.ORA_ABSY, C.SBC_ABSY, \hBF, C.STA_ABSY,
          C.JMP_IND }
AbsCarts ==
    LET C == cpu_const
    IN  { Cartridge(<<C.LDX_IMM, i, C.LDY_IMM, i>>, origin,
                    <<op, Lo(base), Hi(base)>>) :
            i \in Indexes, base \in Bases, op \in AbsOps, origin \in {0, \hFFFE} }

ZeroPages == {\h10, \hFF}
ZpOps ==
    LET C == cpu_const
    IN  { C.LDA_IMM, C.LDA_ZP, C.STA_ZP, C.LDA_ZPX, C.STA_ZPX, C.LDX_ZPY,
          C.STX_ZPY }
ZpCarts ==
    LET C == cpu_const
    IN  { Cartridge(<<C.LDX_IMM, i, C.LDY_IMM, i>>, origin, <<op, zp>>) :
            i \in Indexes, zp \in ZeroPages, op \in ZpOps, origin \in {0, \hFFFE} }

IndYOps ==
    LET C == cpu_const
    IN  { C.LDA_INDY, C.ADC_INDY, C.AND_INDY, C.CMP_INDY, C.EOR_INDY,
          C.ORA_INDY, C.SBC_INDY, \hB3, C.STA_INDY }
IndXOps == {cpu_const.LDA_INDX, cpu_const.STA_INDX}
\* the pointer base is written to zero page zp, zp + 1 (wrapping) first
PointerSetup(load_index, i, zp, base) ==
    LET C == cpu_const
    IN  <<load_index, i, C.LDA_IMM, Lo(base), C.STA_ZP, zp,
          C.LDA_IMM, Hi(base), C.STA_ZP, (zp + 1) % 256>>
IndCarts ==
    { Cartridge(PointerSetup(cpu_const.LDY_IMM, i, zp, base), 0, <<op, zp>>) :
        i \in Indexes, zp \in ZeroPages, base \in Bases, op \in IndYOps }
    \cup
    { Cartridge(PointerSetup(cpu_const.LDX_IMM, i, zp, base), 0,
                <<op, (zp + 256 - i) % 256>>) :
        i \in Indexes, zp \in ZeroPages, base \in Bases, op \in IndXOps }

\* stores that reach the DMA trigger after an even and after an odd number
\* of cycles
DmaPages == {\h00, \h01, \h80, \hFF}
DmaStores(i) ==
    LET C == cpu_const
    IN  { <<C.STA_ABS, Lo(DMA_ADDR), Hi(DMA_ADDR)>>,
          <<C.STA_ABSX, Lo(DMA_ADDR) - i, Hi(DMA_ADDR)>>,
          <<C.STY_ABS, Lo(DMA_ADDR), Hi(DMA_ADDR)>>,
          <<C.INC_ABSX, Lo(DMA_ADDR) - i, Hi(DMA_ADDR)>> }
DmaCarts ==
    LET C == cpu_const
        pad(k) == IF k = 0 THEN <<>> ELSE <<C.PHA>>
    IN  UNION { { Cartridge(pad(k) \o <<C.LDA_IMM, v, C.LDX_IMM, i, C.TAY>>, 0, test) :
                    k \in {0, 1}, v \in DmaPages, test \in DmaStores(i) } :
                i \in {\h00, \h14} }

\* every status byte pulled by PLP and by RTI, the flags then pushed by PHP
\* or BRK, RTI to targets at the edges of the address space, and pulls at
\* the top of the stack page
Targets == {\h0000, \h8123, \hFFFF}
StatusCarts ==
    LET C == cpu_const
    IN  { Cartridge(<<C.LDA_IMM, b, C.PHA>>, 0, <<C.PLP, C.PHP>>) : b \in 0..255 }
        \cup
        { Cartridge(<<C.LDA_IMM, b, C.PHA>>, 0, <<C.PLP, C.BRK>>) :
            b \in {\h00, \hFF} }
        \cup
        { Cartridge(<<C.LDA_IMM, Hi(target), C.PHA, C.LDA_IMM, Lo(target), C.PHA,
                      C.LDA_IMM, b, C.PHA>>, 0, <<C.RTI>>) :
            b \in 0..255, target \in {\h8123} }
        \cup
        { Cartridge(<<C.LDA_IMM, Hi(target), C.PHA, C.LDA_IMM, Lo(target), C.PHA,
                      C.LDA_IMM, b, C.PHA>>, 0, <<C.RTI>>) :
            b \in {\h00, \hFF}, target \in Targets }
        \cup
        { Cartridge(<<C.LDX_IMM, sp, C.TXS>>, 0, <<pull>>) :
            sp \in {\hFC, \hFD, \hFE, \hFF}, pull \in {C.PLP, C.RTI} }

\* a JSR to an RTS from several stack pointers, flags and addresses, and an
\* RTS to return addresses pushed by hand
CallCarts ==
    LET C == cpu_const
    IN  { Merge(Place(SUBROUTINE, <<C.RTS>>),
                Cartridge(<<C.LDX_IMM, sp, C.TXS, C.LDA_IMM, a>>, origin,
                          <<C.JSR, Lo(SUBROUTINE), Hi(SUBROUTINE)>>)) :
            sp \in {\h00, \h01, \h80, \hFD}, a \in {\h00, \h80},
            origin \in {0, \h80FD, \h80FE} }
        \cup
        { Cartridge(<<C.LDA_IMM, Hi(target), C.PHA, C.LDA_IMM, Lo(target), C.PHA>>,
                    0, <<C.RTS>>) :
            target \in Targets \cup {\h80FF} }

\* every opcode byte at power-on
\* indirect jumps through a pointer in RAM, the byte after the pointer in
\* its page and the byte that begins the page made different
JmpPointers == {\h0210, \h02FF, \h07FF}
JmpCarts ==
    LET C == cpu_const
    IN  { Cartridge(<<C.LDA_IMM, \h44, C.STA_ABS, Lo(p + 1), Hi(p + 1),
                      C.LDA_IMM, Hi(target), C.STA_ABS, (p + 1) % 256, Hi(p),
                      C.LDA_IMM, Lo(target), C.STA_ABS, Lo(p), Hi(p)>>, 0,
                    <<C.JMP_IND, Lo(p), Hi(p)>>) :
            p \in JmpPointers, target \in Targets }

\* arithmetic and comparison of every pair of edge values, from every
\* carry, overflow and decimal flag, with an immediate operand and with an
\* operand in the zero page
Values == {\h00, \h01, \h40, \h7F, \h80, \hC0, \hFF}
Statuses == {\h00, \h01, \h48, \h49}
AluImmOps ==
    LET C == cpu_const
    IN  {C.ADC_IMM, C.SBC_IMM, \hEB, C.CMP_IMM, C.CPX_IMM, C.CPY_IMM}
AluZpOps ==
    LET C == cpu_const
    IN  {C.ADC_ZP, C.SBC_ZP, C.CMP_ZP, C.CPX_ZP, C.CPY_ZP}
LoadFor(op) ==
    LET C == cpu_const
    IN  IF op \in {C.CPX_IMM, C.CPX_ZP} THEN C.LDX_IMM
        ELSE IF op \in {C.CPY_IMM, C.CPY_ZP} THEN C.LDY_IMM
        ELSE C.LDA_IMM
AluCarts ==
    LET C == cpu_const
    IN  { Cartridge(<<C.LDA_IMM, f, C.PHA, C.PLP, LoadFor(op), r>>, 0, <<op, m>>) :
            f \in Statuses, r \in Values, m \in Values, op \in AluImmOps }
        \cup
        { Cartridge(<<C.LDA_IMM, m, C.STA_ZP, \h10, LoadFor(op), r>>, 0,
                    <<op, \h10>>) :
            r \in Values, m \in Values, op \in AluZpOps }

\* the undocumented read-modify-write instructions on every pair of edge
\* values, from either carry, and the documented instructions they are
\* made of
RmwZpOps == {\hC7, \hE7, \h07, \h27, \h47, \h67}
RmwCarts ==
    LET C == cpu_const
    IN  { Cartridge(<<C.LDA_IMM, m, C.STA_ZP, \h10, carry, C.LDA_IMM, a>>, 0,
                    <<op, \h10>>) :
            m \in Values, a \in Values, carry \in {C.CLC, C.SEC}, op \in RmwZpOps }

\* every no-operation opcode, at the start of the code and at the end of
\* the address space, before operand words and under X values that do and
\* do not cross a page
NopOps1 == {cpu_const.NOP, \h1A, \h3A, \h5A, \h7A, \hDA, \hFA}
NopOps2 ==
    {\h14, \h34, \h44, \h54, \h64, \h74, \h80, \h82, \h89, \hC2, \hD4,
     \hE2, \hF4, \h04}
NopOpsAbsX == {\h1C, \h3C, \h5C, \h7C, \hDC, \hFC}
NopOps == NopOps1 \cup NopOps2 \cup {\h0C} \cup NopOpsAbsX
NopCarts ==
    LET C == cpu_const
    IN  { Cartridge(<<C.LDX_IMM, i, C.LDA_IMM, i>>, origin,
                    <<op, Lo(base), Hi(base)>>) :
            i \in Indexes, base \in Bases, op \in NopOps, origin \in {0, \hFFFE} }

\* a store to work RAM, a second store, and a load, each at an address of
\* its own among the four mirrors
MirrorStores == {\h0010, \h0810, \h17FF, \h1FFF}
MirrorLoads == {\h0010, \h1010, \h1810, \h07FF, \h0FFF, \h1FFF}
MirrorCarts ==
    LET C == cpu_const
    IN  { Cartridge(<<C.LDA_IMM, v, C.STA_ABS, Lo(a), Hi(a),
                      C.LDX_IMM, \h5A, C.STX_ABS, Lo(b), Hi(b)>>, 0,
                    <<C.LDA_ABS, Lo(l), Hi(l)>>) :
            v \in {\h01, \hFF}, a \in MirrorStores, b \in MirrorStores,
            l \in MirrorLoads }

\* the documented read-modify-write instructions in absolute,X mode, with
\* and without a page crossing
RmwAbsXOps ==
    LET C == cpu_const
    IN  {C.ASL_ABSX, C.LSR_ABSX, C.ROL_ABSX, C.ROR_ABSX, C.INC_ABSX, C.DEC_ABSX}
RmwAbsXCarts ==
    { Cartridge(<<cpu_const.LDX_IMM, i>>, 0, <<op, Lo(base), Hi(base)>>) :
        i \in Indexes, base \in Bases, op \in RmwAbsXOps }

\* SYA and SXA under every pair of edge index values, before operand words
\* in RAM and in the last pages of the address space
HighBases == {\h0210, \h02FF, \hFE80, \hFF00, \hFFFF}
HighIndexes == {\h00, \h01, \h80, \hFF}
SyaCarts ==
    LET C == cpu_const
    IN  { Cartridge(<<C.LDX_IMM, i, C.LDY_IMM, j>>, 0,
                    <<op, Lo(base), Hi(base)>>) :
            i \in HighIndexes, j \in HighIndexes, base \in HighBases,
            op \in {\h9C, \h9E} }

OpcodeCarts == { Cartridge(<<>>, 0, <<op, \h10, \h02>>) : op \in 0..255 }

\* every opcode with the decimal flag set, and sums and differences of edge
\* values with the decimal flag set and clear
DecimalCarts ==
    LET C == cpu_const
    IN  { Cartridge(<<C.SED>>, 0, <<op, \h10, \h02>>) : op \in 0..255 }
        \cup
        { Cartridge(<<decimal, carry, C.LDA_IMM, a>>, 0, <<op, m>>) :
            decimal \in {C.SED, C.CLD}, carry \in {C.SEC, C.CLC}, a \in Values,
            m \in Values, op \in {C.ADC_IMM, C.SBC_IMM} }

Cartridges == StackCarts \cup DmaCarts \cup OpcodeCarts

-----------------------------------------------------------------------------
(* The machine and the driver loop *)

-----------------------------------------------------------------------------
(* Vram: the picture unit's video memory.  The mapper and rom::ScreenMode    *)
(* are not among the sources: the mirroring mode is one of the variants     *)
(* nt_mirror matches on and stays what the cartridge gave, and ld_chr reads *)
(* a fixed CHR image.                                                       *)

VRAM_SIZE == \h800
NT_0 == \h000
NT_0_END == \h3FF
NT_1 == \h400
NT_1_END == \h7FF
NT_2 == \h800
NT_2_END == \hBFF
NT_3 == \hC00
NT_3_END == \hFFF

ScreenModes ==
    {"Horizontal", "Vertical", "OneScreenSwapLower", "OneScreenSwapUpper",
     "FourScreen"}

\* the result of a call that panicked instead of returning an index
NoIndex == 0 - 1

\* a variant of nt_mirror's Horizontal arm that leaves the second nametable
\* where it is: what C33 excludes
nt_mirror_unfolded(mode, addr) ==
    CASE mode = "Horizontal" ->
             IF addr <= NT_1_END THEN addr
             ELSE IF addr <= NT_3_END THEN addr - \h800
             ELSE NoIndex
      [] mode = "Vertical" ->
             IF addr <= NT_1_END THEN addr
             ELSE IF addr <= NT_3_END THEN addr - \h800
             ELSE NoIndex
      [] mode = "OneScreenSwapLower" -> addr % \h400
      [] mode = "OneScreenSwapUpper" -> (addr % \h400) + \h400
      [] OTHER -> NoIndex

\* Vram::nt_mirror; panic! and unimplemented! give NoIndex
nt_mirror(mode, addr) ==
    CASE mode = "Horizontal" ->
             IF addr <= NT_0_END THEN addr
             ELSE IF addr <= NT_2_END THEN addr - \h400
             ELSE IF addr <= NT_3_END THEN addr - \h800
             ELSE NoIndex
      [] mode = "Vertical" ->
             IF addr <= NT_1_END THEN addr
             ELSE IF addr <= NT_3_END THEN addr - \h800
             ELSE NoIndex
      [] mode = "OneScreenSwapLower" -> addr % \h400
      [] mode = "OneScreenSwapUpper" -> (addr % \h400) + \h400
      [] OTHER -> NoIndex

\* Vram::palette_mirror
palette_mirror(addr) ==
    IF (addr % 32) \in {\h10, \h14, \h18, \h1C} THEN (addr % 32) % 16
    ELSE addr % 32

\* Vram::new: both arrays zeroed (kept as their non-zero bytes), the read
\* buffer 0; with the history of calls empty
Vram_new(mode, chr) ==
    [mode |-> mode, chr |-> chr, vram |-> <<>>, palette |-> <<>>,
     ppudata_buff |-> 0, panicked |-> FALSE,
     call |-> "new", addr |-> 0, out |-> 0, index |-> NoIndex, count |-> 0,
     before |-> [call |-> "new", addr |-> 0, ppudata_buff |-> 0]]

\* the byte an array holds at an index
held(array, i) == IF i \in DOMAIN array THEN array[i] ELSE 0
\* the array with val at index i
holding(array, i, val) ==
    IF val = 0 THEN [a \in DOMAIN array \ {i} |-> array[a]]
    ELSE [a \in DOMAIN array \cup {i} |-> IF a = i THEN val ELSE array[a]]

\* mapper.ld_chr(addr)
ld_chr(m, addr) == held(m.chr, addr)

\* self.vram[self.nt_mirror(addr & 0xFFF)]: the index, which panics when
\* nt_mirror does or when it is outside the array
vram_index(m, addr) ==
    IF nt_mirror(m.mode, addr % \h1000) \in 0..(VRAM_SIZE - 1)
    THEN nt_mirror(m.mode, addr % \h1000)
    ELSE NoIndex

\* Vram::ld8: whether it panics, the index of vram it reads, and the byte
\* it returns
Vram_ld8_panics(m, addr) ==
    \/ addr > \h3FFF
    \/ addr \in \h2000..\h3EFF /\ vram_index(m, addr) = NoIndex
Vram_ld8_index(m, addr) ==
    IF addr \in \h2000..\h3EFF THEN vram_index(m, addr) ELSE NoIndex
Vram_ld8(m, addr) ==
    IF addr <= \h1FFF THEN ld_chr(m, addr)
    ELSE IF addr <= \h3EFF THEN held(m.vram, vram_index(m, addr))
    ELSE held(m.palette, palette_mirror(addr))

\* the record of a call begun on m
called(m, call, addr) ==
    [m EXCEPT !.call = call, !.addr = addr, !.count = @ + 1,
              !.index = NoIndex,
              !.before = [call |-> m.call, addr |-> m.addr,
                          ppudata_buff |-> m.ppudata_buff]]

\* a variant of buffered_ld8 that returns the byte at the address read below
\* 0x3F00 at once: what C34 excludes
buffered_ld8_immediate(m, addr) ==
    IF Vram_ld8_panics(m, addr) \/ (addr >= \h3F00 /\ vram_index(m, addr) = NoIndex)
    THEN [m EXCEPT !.panicked = TRUE]
    ELSE [m EXCEPT !.out = Vram_ld8(m, addr),
                   !.ppudata_buff = IF addr < \h3F00 THEN Vram_ld8(m, addr)
                                    ELSE held(m.vram, vram_index(m, addr)),
                   !.index = IF addr < \h3F00 THEN Vram_ld8_index(m, addr)
                             ELSE vram_index(m, addr)]

\* Vram::buffered_ld8
buffered_ld8(m, addr) ==
    IF addr < \h3F00
    THEN IF Vram_ld8_panics(m, addr) THEN [m EXCEPT !.panicked = TRUE]
         ELSE [m EXCEPT !.out = m.ppudata_buff,
                        !.ppudata_buff = Vram_ld8(m, addr),
                        !.index = Vram_ld8_index(m, addr)]
    ELSE IF vram_index(m, addr) = NoIndex THEN [m EXCEPT !.panicked = TRUE]
    ELSE IF Vram_ld8_panics(m, addr)
    THEN [m EXCEPT !.ppudata_buff = held(m.vram, vram_index(m, addr)),
                   !.index = vram_index(m, addr),
                   !.panicked = TRUE]
    ELSE [m EXCEPT !.out = Vram_ld8(m, addr),
                   !.ppudata_buff = held(m.vram, vram_index(m, addr)),
                   !.index = vram_index(m, addr)]

\* Vram::store, of the nametables and the palette.  A store below 0x2000
\* goes to the mapper's store_chr.
Vram_store(m, addr, val) ==
    IF addr <= \h1FFF THEN m
    ELSE IF addr <= \h3EFF
    THEN IF vram_index(m, addr) = NoIndex THEN [m EXCEPT !.panicked = TRUE]
         ELSE [m EXCEPT !.vram = holding(@, vram_index(m, addr), val),
                        !.index = vram_index(m, addr)]
    ELSE IF addr <= \h3FFF
    THEN [m EXCEPT !.palette = holding(@, palette_mirror(addr), val)]
    ELSE [m EXCEPT !.panicked = TRUE]

\* Vram::reset; the read buffer stays
Vram_reset(m) == [m EXCEPT !.vram = <<>>, !.palette = <<>>]

\* the machine record of the current state, its bus log cleared
Machine ==
    [regs |-> regs, cycle_count |-> cycle_count, cc |-> cc, ram |-> ram,
     bus |-> <<>>, fault |-> fault, v |-> 0, addr |-> 0]

\* the state an operation began in, and in prev the kind of the operation
\* before it and the registers that one began with
Before(kind) ==
    [kind |-> kind, regs |-> regs, ram |-> ram, fault |-> fault,
     elapsed |-> elapsed, ppu_cycles |-> ppu_cycles,
     prev |-> [kind |-> last.kind, regs |-> last.regs]]

\* Cpu::new on a zeroed Ram
Cpu_new ==
    set_addr(Mmu_ld16([regs |-> [acc |-> 0, x |-> 0, y |-> 0, pc |-> 0,
                                 sp |-> \hFD, flags |-> 36],
                       cycle_count |-> 0, cc |-> 0, ram |-> <<>>,
                       bus |-> <<>>, fault |-> NoFault, v |-> 0, addr |-> 0],
                      RESET_VEC))

PowerOn(carts) ==
    /\ prg \in carts
    /\ overflow_checks \in BOOLEAN
    /\ log_debug \in BOOLEAN
    /\ regs = Cpu_new.regs
    /\ cycle_count = Cpu_new.cycle_count
    /\ cc = Cpu_new.cc
    /\ ram = Cpu_new.ram
    /\ fault = Cpu_new.fault
    /\ bus = Cpu_new.bus
    /\ at = "step"
    /\ ret = 0
    /\ ppu_cycles = 0
    /\ elapsed = 0
    /\ steps = 0
    /\ nmis = 0
    /\ last = [kind |-> "new", regs |-> Cpu_new.regs, ram |-> <<>>,
               fault |-> NoFault, elapsed |-> 0, ppu_cycles |-> 0,
               prev |-> [kind |-> "new", regs |-> Cpu_new.regs]]

\* with the picture unit's Vram as Vram::new leaves it; the CPU core never
\* touches it
InitWith(carts) ==
    /\ PowerOn(carts)
    /\ video = Vram_new("Horizontal", <<>>)

Init == InitWith(Cartridges)

\* the CPU fields after an operation that left the machine s, and the
\* driver's position: on, unless the operation panicked
Cpu_becomes(s, on) ==
    /\ at' = IF Ok(s) THEN on ELSE "panicked"
    /\ regs' = s.regs
    /\ cycle_count' = s.cycle_count
    /\ cc' = s.cc
    /\ ram' = s.ram
    /\ fault' = s.fault
    /\ bus' = s.bus

\* let cc = cpu.step(), for the machine and the cycle count r that step gives
StepReturns(r) ==
    /\ Cpu_becomes(r, "emulate_cycles")
    /\ ret' = IF Ok(r) THEN r.v ELSE ret
    /\ elapsed' = IF Ok(r) THEN elapsed + r.v ELSE elapsed

Step ==
    /\ at = "step"
    /\ steps < MaxSteps
    /\ StepReturns(step(Machine))
    /\ steps' = steps + 1
    /\ last' = Before("step")
    /\ UNCHANGED <<video, prg, overflow_checks, log_debug, ppu_cycles, nmis>>

\* a variant of the driver that answers an interrupt of the picture unit
\* before advancing it: what C10 excludes
EmulateCycles_after_nmi ==
    /\ at = "emulate_cycles"
    /\ \E res \in {"None", "Nmi", "Draw"} :
          /\ res = "Nmi" => nmis < MaxNmis
          /\ at' = IF res = "Nmi" THEN "proc_nmi" ELSE "poll"
          /\ ppu_cycles' = IF res = "Nmi" THEN ppu_cycles ELSE ppu_cycles + ret
    /\ UNCHANGED <<video, regs, cycle_count, cc, ram, prg, overflow_checks, log_debug,
                   fault, bus, ret, elapsed, steps, nmis, last>>

\* cpu.mmu.ppu.emulate_cycles(cc).  The picture unit is not among the
\* sources: it is advanced by cc and answers None, Nmi or Draw.
EmulateCycles ==
    /\ at = "emulate_cycles"
    /\ ppu_cycles' = ppu_cycles + ret
    /\ \E res \in {"None", "Nmi", "Draw"} :
          /\ res = "Nmi" => nmis < MaxNmis
          /\ at' = IF res = "Nmi" THEN "proc_nmi" ELSE "poll"
    /\ UNCHANGED <<video, regs, cycle_count, cc, ram, prg, overflow_checks, log_debug,
                   fault, bus, ret, elapsed, steps, nmis, last>>

\* PpuRes::Nmi => cpu.proc_nmi()
ProcNmi ==
    /\ at = "proc_nmi"
    /\ Cpu_becomes(proc_nmi(Machine), "poll")
    /\ nmis' = nmis + 1
    /\ last' = Before("nmi")
    /\ UNCHANGED <<video, prg, overflow_checks, log_debug, ret, ppu_cycles,
                   elapsed, steps>>

\* for event in event_pump.poll_iter(): Quit or Escape leaves the loop
PollEvents ==
    /\ at = "poll"
    /\ \E quit \in BOOLEAN : at' = IF quit THEN "exited" ELSE "step"
    /\ UNCHANGED <<video, regs, cycle_count, cc, ram, prg, overflow_checks, log_debug,
                   fault, bus, ret, ppu_cycles, elapsed, steps, nmis, last>>

Next == Step \/ EmulateCycles \/ ProcNmi \/ PollEvents

\* cpu.reset(), the public method, called between two instructions by a
\* front end that has a reset button; it counts among the steps
Reset ==
    /\ at = "step"
    /\ steps < MaxSteps
    /\ Cpu_becomes(reset(Machine), "step")
    /\ steps' = steps + 1
    /\ last' = Before("reset")
    /\ UNCHANGED <<video, prg, overflow_checks, log_debug, ret, ppu_cycles, elapsed,
                   nmis>>

NextWithReset == Next \/ Reset

\* the CHR images, the addresses and the bytes of the calls made on Vram
ChrImages == { [a \in {\h0000, \h1FFF} |-> IF a = \h0000 THEN b ELSE \hC3] :
                 b \in {\h00, \h3C} }
VideoStoreAddrs == {\h2000, \h2400, \h2F00, \h2FFF, \h3F00, \h3F10}
VideoLoadAddrs ==
    {\h0000, \h1FFF, \h2000, \h2400, \h2800, \h2FFF, \h3BFF, \h3F00, \h3F10,
     \h3FFF, \h4000}
VideoBytes == {\h5A, \hA5}

cpu_vars == <<regs, cycle_count, cc, ram, prg, overflow_checks, log_debug,
              fault, bus, at, ret, ppu_cycles, elapsed, steps, nmis, last>>

\* the picture unit's calls on its Vram, in any order
VideoCall ==
    /\ ~video.panicked
    /\ video.count < MaxVideoOps

BufferedLd8 ==
    /\ VideoCall
    /\ \E addr \in VideoLoadAddrs :
          video' = buffered_ld8(called(video, "buffered_ld8", addr), addr)
    /\ UNCHANGED cpu_vars

VramStore ==
    /\ VideoCall
    /\ \E addr \in VideoStoreAddrs, val \in VideoBytes :
          video' = Vram_store(called(video, "store", addr), addr, val)
    /\ UNCHANGED cpu_vars

VramReset ==
    /\ VideoCall
    /\ video' = Vram_reset(called(video, "reset", 0))
    /\ UNCHANGED cpu_vars

NextVideo == BufferedLd8 \/ VramStore \/ VramReset

\* Vram::new for each mirroring mode and CHR image, beside a CPU that is
\* never stepped
InitVideo ==
    /\ PowerOn({Vectors})
    /\ overflow_checks = FALSE
    /\ log_debug = FALSE
    /\ \E mode \in ScreenModes, chr \in ChrImages : video = Vram_new(mode, chr)

SpecVideo == InitVideo /\ [][NextVideo]_vars

Spec == Init /\ [][Next]_vars

SpecStack == InitWith(StackCarts) /\ [][Next]_vars
SpecBranch == InitWith(BranchCarts) /\ [][Next]_vars
SpecDma == InitWith(DmaCarts) /\ [][Next]_vars
SpecOp == InitWith(OpcodeCarts) /\ [][Next]_vars
SpecModes ==
    InitWith(AbsCarts \cup ZpCarts \cup IndCarts \cup JmpCarts) /\ [][Next]_vars
SpecStatus == InitWith(StatusCarts) /\ [][Next]_vars
SpecCall == InitWith(CallCarts) /\ [][Next]_vars
SpecAlu == InitWith(AluCarts) /\ [][Next]_vars
SpecRmw == InitWith(RmwCarts \cup RmwAbsXCarts) /\ [][Next]_vars
SpecNop == InitWith(NopCarts) /\ [][Next]_vars
SpecSya == InitWith(SyaCarts) /\ [][Next]_vars
SpecMirror == InitWith(MirrorCarts) /\ [][Next]_vars
SpecDecimal == InitWith(OpcodeCarts \cup DecimalCarts) /\ [][Next]_vars
SpecReset == InitWith(CallCarts) /\ [][NextWithReset]_vars

-----------------------------------------------------------------------------
(* What the latest CPU operation did.  The first bus access of a step is    *)
(* its opcode fetch, the next ones fetch its operand bytes; last holds the  *)
(* state the operation began in and regs, ram, ret the state it left.       *)

Stepped == last.kind = "step"
Completed == Stepped /\ fault.kind = "none"
Opcode == bus[1][3]
Operand == bus[2][3]
Operand16 == Word(bus[3][3], bus[2][3])
\* the address of the instruction after one of len bytes
NextInstr(len) == (last.regs.pc + len) % 65536
\* the 16-bit pointer the zero page held at zp, zp + 1 (wrapping in the page)
PointerAt(zp) ==
    Word(Ram_load(last.ram, (zp + 1) % 256), Ram_load(last.ram, zp))
\* the step reached the DMA trigger: 256 loads and 256 stores end its bus log
DmaTriggered == Completed /\ Len(bus) > 512

-----------------------------------------------------------------------------
(* The stack *)

PushOps == {cpu_const.PHA, cpu_const.PHP, cpu_const.JSR, cpu_const.BRK}
PullOps == {cpu_const.PLA, cpu_const.PLP, cpu_const.RTS, cpu_const.RTI}
InStackPage(a) == a \in \h0100..\h01FF

\* C1: for every stack pointer value push stores at 0x0100|SP and then
\* decrements SP modulo 256, pop increments SP modulo 256 and then loads from
\* 0x0100|SP, neither raises an error, and every stack access of steps and NMI
\* entries lies in 0x0100..0x01FF.
C1_StackWraps ==
    LET C == cpu_const
        sp == last.regs.sp
    IN  /\ (Stepped /\ Opcode \in {C.PHA, C.PHP}) =>
              /\ fault.kind = "none"
              /\ Len(bus) = 2 /\ bus[2][1] = "st" /\ bus[2][2] = \h100 + sp
              /\ regs.sp = (sp + 255) % 256
        /\ (Stepped /\ Opcode \in {C.PLA, C.PLP}) =>
              /\ fault.kind = "none"
              /\ regs.sp = (sp + 1) % 256
              /\ Len(bus) = 2 /\ bus[2][1] = "ld" /\ bus[2][2] = \h100 + regs.sp
        /\ (Stepped /\ Opcode \in PushOps) =>
              /\ fault.kind = "none"
              /\ \A k \in 1..Len(bus) : bus[k][1] = "st" => InStackPage(bus[k][2])
        /\ (Stepped /\ Opcode \in PullOps) =>
              /\ fault.kind = "none"
              /\ InStackPage(bus[2][2])
        /\ last.kind = "nmi" =>
              /\ fault.kind = "none"
              /\ regs.sp = (sp + 253) % 256
              /\ \A k \in 1..Len(bus) : bus[k][1] = "st" => InStackPage(bus[k][2])

\* a push at SP = 0x00 or a pull at SP = 0xFF that ended in an overflow panic
C1_Witness ==
    /\ Stepped
    /\ fault.kind = "overflow"
    /\ \/ Opcode \in PushOps /\ last.regs.sp = \h00
       \/ Opcode \in PullOps /\ last.regs.sp = \hFF

-----------------------------------------------------------------------------
(* OAM DMA *)

\* the value a store instruction of DmaCarts writes
StoredValue ==
    LET C == cpu_const
    IN  CASE Opcode \in {C.STA_ABS, C.STA_ABSX} -> last.regs.acc
          [] Opcode = C.STY_ABS -> last.regs.y
          [] Opcode = C.INC_ABSX -> 1

\* C2: a store of v to the DMA trigger copies the 256 bytes at (v<<8)..
\* (v<<8)+0xFF to the OAM data register, one load and one store at a time in
\* ascending order, and adds to the step's returned cycle count 513 when the
\* running total of cycles over all steps so far is even and 514 when odd.
C2_DmaCost ==
    DmaTriggered =>
        LET n == Len(bus) - 512
            v == StoredValue
        IN  /\ \A i \in 0..255 :
                  /\ bus[n + 2 * i + 1][1] = "ld"
                  /\ bus[n + 2 * i + 1][2] = v * 256 + i
                  /\ bus[n + 2 * i + 2] = <<"st", OAM_DATA, bus[n + 2 * i + 1][3]>>
            /\ ret = Cycles(Opcode) + (IF last.elapsed % 2 = 0 THEN 513 ELSE 514)

\* a DMA triggered after an odd number of cycles and charged 513
C2_Witness ==
    /\ DmaTriggered
    /\ last.elapsed % 2 = 1
    /\ ret = Cycles(Opcode) + 513

-----------------------------------------------------------------------------
(* Branches *)

BranchTaken(op, f) ==
    LET C == cpu_const
    IN  CASE op = C.BVS -> flag(f, OVERFLOW)
          [] op = C.BVC -> ~flag(f, OVERFLOW)
          [] op = C.BMI -> flag(f, NEG)
          [] op = C.BPL -> ~flag(f, NEG)
          [] op = C.BEQ -> flag(f, ZERO)
          [] op = C.BNE -> ~flag(f, ZERO)
          [] op = C.BCS -> flag(f, CARRY)
          [] op = C.BCC -> ~flag(f, CARRY)

TakenBranch == Completed /\ Opcode \in BranchOps /\ BranchTaken(Opcode, last.regs.flags)

\* C3 as the specification states it: a taken branch is charged the second
\* extra cycle exactly when the target's high byte differs from the high byte
\* of the address the branch's opcode was fetched from.
C3_OwnPage ==
    TakenBranch =>
        ret = Cycles(Opcode) + 1 + (IF Hi(regs.pc) # Hi(last.regs.pc) THEN 1 ELSE 0)

\* C3: a taken branch is charged the second extra cycle exactly when the
\* target's high byte differs from the high byte of the address of the
\* instruction after the branch (the opcode's address + 2, modulo 65536).
C3_NextPage ==
    TakenBranch =>
        ret = Cycles(Opcode) + 1 + (IF Hi(regs.pc) # Hi(NextInstr(2)) THEN 1 ELSE 0)

\* a taken branch whose opcode and whose successor lie in different pages,
\* charged by the successor's page
C3_Witness ==
    /\ TakenBranch
    /\ Hi(last.regs.pc) # Hi(NextInstr(2))
    /\ Hi(regs.pc) = Hi(NextInstr(2))
    /\ ret = Cycles(Opcode) + 1

\* C4: an untaken branch returns the base cost and leaves PC at the next
\* instruction; a taken branch returns base+1 or base+2 and sets PC to the
\* next instruction's address plus the signed displacement modulo 65536; the
\* branch is taken exactly when its flag predicate holds; no flag and no
\* other register changes.
C4_Branches ==
    (Stepped /\ Opcode \in BranchOps) =>
        LET taken == BranchTaken(Opcode, last.regs.flags)
            target == (NextInstr(2) + AsI8(Operand) + 65536) % 65536
        IN  /\ fault.kind = "none"
            /\ ~taken => ret = Cycles(Opcode) /\ regs.pc = NextInstr(2)
            /\ taken => /\ ret \in {Cycles(Opcode) + 1, Cycles(Opcode) + 2}
                        /\ regs.pc = target
            /\ [regs EXCEPT !.pc = last.regs.pc] = last.regs

\* a branch taken backwards across a page boundary, and one not taken
C4_Witness ==
    /\ TakenBranch
    /\ AsI8(Operand) < 0
    /\ ret = Cycles(Opcode) + 2
    /\ regs.pc = NextInstr(2) + AsI8(Operand)

-----------------------------------------------------------------------------
(* Addressing modes *)

\* the opcodes execute_op sends through AbsX, AbsY and IndY to read a byte
XReadOps ==
    LET C == cpu_const
    IN  {C.LDA_ABSX, C.LDY_ABSX, C.ADC_ABSX, C.AND_ABSX, C.CMP_ABSX, C.EOR_ABSX,
         C.ORA_ABSX, C.SBC_ABSX, \h1C}
YReadOps ==
    LET C == cpu_const
    IN  {C.LDA_ABSY, C.LDX_ABSY, C.ADC_ABSY, C.AND_ABSY, C.CMP_ABSY, C.EOR_ABSY,
         C.ORA_ABSY, C.SBC_ABSY, \hBF}
IndYReadOps == IndYOps \ {cpu_const.STA_INDY}
StoreOps ==
    LET C == cpu_const
    IN  {C.STA_ZP, C.STA_ZPX, C.STX_ZPY, C.STA_ABS, C.STA_ABSX, C.STA_ABSY,
         C.STA_INDX, C.STA_INDY}

\* the effective address of the step's instruction, by the 6502's rules
EffectiveAddress ==
    LET C == cpu_const
        x == last.regs.x
        y == last.regs.y
    IN  CASE Opcode = C.LDA_IMM -> NextInstr(1)
          [] Opcode \in {C.LDA_ZP, C.STA_ZP} -> Operand
          [] Opcode \in {C.LDA_ZPX, C.STA_ZPX} -> (Operand + x) % 256
          [] Opcode \in {C.LDX_ZPY, C.STX_ZPY} -> (Operand + y) % 256
          [] Opcode \in {C.LDA_ABS, C.STA_ABS, C.JMP_ABS} -> Operand16
          [] Opcode \in XReadOps \cup {C.STA_ABSX} -> (Operand16 + x) % 65536
          [] Opcode \in YReadOps \cup {C.STA_ABSY} -> (Operand16 + y) % 65536
          [] Opcode = C.JMP_IND ->
                LET m == [ram |-> last.ram]
                IN  Word(Mmu_peek(m, Page(Operand16) + ((Operand16 + 1) % 256)),
                         Mmu_peek(m, Operand16))
          [] Opcode \in IndXOps -> PointerAt((Operand + x) % 256)
          [] Opcode \in IndYOps -> (PointerAt(Operand) + y) % 65536

\* the address the step's instruction used: where a jump went, and else the
\* address of the data access that ends the bus log
UsedAddress ==
    IF Opcode \in {cpu_const.JMP_ABS, cpu_const.JMP_IND} THEN regs.pc
    ELSE bus[Len(bus)][2]

\* C5: for every base address and index value each of the 13 addressing
\* modes yields an effective address computed modulo 65536 and never aborts
\* or raises an overflow error: absolute,X, absolute,Y and (zp),Y wrap past
\* 0xFFFF to the low addresses, and operand fetches with PC at 0xFFFF wrap.
C5_ModesTotal ==
    (Stepped /\ Opcode \in (AbsOps \cup ZpOps \cup IndYOps \cup IndXOps) \ {\h1C}) =>
        /\ fault.kind = "none"
        /\ UsedAddress = EffectiveAddress

\* an absolute,X access past 0xFFFF, or an operand fetch at 0xFFFF, that
\* ended in an overflow panic
C5_Witness ==
    /\ Stepped
    /\ fault.kind = "overflow"
    /\ \/ /\ Opcode \in {cpu_const.LDA_ABSX, cpu_const.STA_ABSX}
          /\ last.regs.pc < \hFFFD
          /\ Operand16 + last.regs.x > \hFFFF
       \/ /\ Opcode = cpu_const.LDA_ABSY
          /\ last.regs.pc = \hFFFE

\* C6: a read through absolute,X, absolute,Y or (zp),Y returns exactly base+1
\* cycles when the high byte of the indexed address differs from the high
\* byte of the unindexed base address and exactly base cycles otherwise, for
\* every base and index value.
C6_ReadPageCross ==
    (Stepped /\ Opcode \in XReadOps \cup YReadOps \cup IndYReadOps
             /\ last.regs.pc < \hFFFD) =>
        LET base == IF Opcode \in IndYReadOps THEN PointerAt(Operand) ELSE Operand16
            index == IF Opcode \in XReadOps THEN last.regs.x ELSE last.regs.y
            crossed == Hi((base + index) % 65536) # Hi(base)
        IN  /\ fault.kind = "none"
            /\ ret = Cycles(Opcode) + (IF crossed THEN 1 ELSE 0)

\* an absolute,X read whose index carries past 0xFFFF and that returned no
\* cycle count
C6_Witness ==
    /\ Stepped
    /\ Opcode \in XReadOps
    /\ last.regs.pc < \hFFFD
    /\ fault.kind = "overflow"

\* C7: a store in an indexed mode, and every other store opcode, returns a
\* cycle count that does not depend on whether the indexing crosses a page:
\* the store goes to the indexed address and no extra cycle is charged.
C7_StoresNoPenalty ==
    (Stepped /\ Opcode \in StoreOps /\ last.regs.pc < \hFFFD) =>
        /\ fault.kind = "none"
        /\ ret = Cycles(Opcode)
        /\ bus[Len(bus)] =
              <<"st", EffectiveAddress,
                IF Opcode = cpu_const.STX_ZPY THEN last.regs.x ELSE last.regs.acc>>

\* a STA absolute,X whose index carries past 0xFFFF and that stored nothing
C7_Witness ==
    /\ Stepped
    /\ Opcode = cpu_const.STA_ABSX
    /\ last.regs.pc < \hFFFD
    /\ fault.kind = "overflow"
    /\ \A k \in 1..Len(bus) : bus[k][1] = "ld"

-----------------------------------------------------------------------------
(* Unsupported opcodes *)

\* the opcode bytes no arm of execute_op names
UnsupportedOps ==
    {\h02, \h12, \h22, \h32, \h42, \h52, \h62, \h72, \h8B, \h92, \h93, \h9B,
     \h9F, \hB2, \hBB, \hD2, \hF2}

\* C8: a step on an opcode byte without semantics ends in a fatal error that
\* carries the byte and the register snapshot; no cycle count reaches the
\* caller and the driver does not go on to another instruction.
C8_UnsupportedFatal ==
    (Stepped /\ Opcode \in UnsupportedOps) =>
        /\ fault = [kind |-> "unsupported_op", op |-> Opcode,
                    regs |-> [last.regs EXCEPT !.pc = NextInstr(1)]]
        /\ regs = fault.regs
        /\ at = "panicked"
        /\ elapsed = last.elapsed
        /\ ppu_cycles = last.ppu_cycles
        /\ ~ENABLED Next

\* an unsupported opcode met after other instructions have run
C8_Witness ==
    /\ Stepped
    /\ Opcode \in UnsupportedOps
    /\ fault.kind = "unsupported_op"
    /\ fault.op = Opcode
    /\ steps > 1

-----------------------------------------------------------------------------
(* The per-step cycle counter *)

\* the opcodes execute_op sends through a mode that charges a page crossing
PageCrossOps ==
    XReadOps \cup YReadOps \cup IndYReadOps
        \cup {cpu_const.INC_ABSX, cpu_const.DEC_ABSX, cpu_const.LSR_ABSX,
              \h3C, \h5C, \h7C, \hDC, \hFC}

\* what an instruction may be charged beyond its base cost, the DMA aside
ExtraCycles(op) ==
    IF op \in BranchOps THEN {0, 1, 2}
    ELSE IF op \in PageCrossOps THEN {0, 1}
    ELSE {0}

\* C9: the per-step cycle counter is zero before and after every step, after
\* reset and after NMI entry, so what step returns is the opcode's base cost
\* plus the extras of that one instruction, with no cycle of an earlier step.
C9_CounterZero ==
    /\ fault.kind = "none" => cycle_count = 0
    /\ Ok(reset(Machine)) => reset(Machine).cycle_count = 0
    /\ Completed =>
          \E e \in ExtraCycles(Opcode) :
              \E d \in IF DmaTriggered THEN {513, 514} ELSE {0} :
                  ret = Cycles(Opcode) + e + d

\* a later step, after cycles have been returned and an NMI entered, that
\* returned its own base cost alone
C9_Witness ==
    /\ Completed
    /\ last.elapsed > 0
    /\ nmis > 0
    /\ cycle_count = 0
    /\ ret = Cycles(Opcode)

-----------------------------------------------------------------------------
(* The driver loop *)

\* C10: every NMI entry happens between two complete instructions, after the
\* picture unit has been advanced by exactly the cycle count the preceding
\* step returned and before the next step is called; never before the advance.
C10_NmiAfterAdvance ==
    /\ at = "proc_nmi" =>
          /\ Completed
          /\ cycle_count = 0
          /\ ppu_cycles = last.ppu_cycles + ret
          /\ ppu_cycles = elapsed
    /\ last.kind = "nmi" =>
          /\ last.ppu_cycles = last.elapsed
          /\ last.fault.kind = "none"
    /\ at = "step" => ppu_cycles = elapsed

\* an NMI entered after the picture unit caught up with a step's cycles
C10_Witness ==
    /\ last.kind = "nmi"
    /\ at = "poll"
    /\ last.ppu_cycles = last.elapsed
    /\ last.elapsed > 0

-----------------------------------------------------------------------------
(* Interrupt entry and return *)

\* the three stores of an interrupt entry from stack pointer sp: the return
\* address, high byte then low byte, then the status byte
EntryStores(sp, return, status) ==
    << <<"st", \h100 + sp, Hi(return)>>,
       <<"st", \h100 + ((sp + 255) % 256), Lo(return)>>,
       <<"st", \h100 + ((sp + 254) % 256), status>> >>

\* the two loads of a vector and the address they give
VectorLoads(vec) ==
    << <<"ld", vec, ld_prg(vec)>>, <<"ld", vec + 1, ld_prg(vec + 1)>> >>
VectorTarget(vec) == Word(ld_prg(vec + 1), ld_prg(vec))

\* C11: a BRK fetched at p pushes p+2, high byte then low byte, then the
\* status byte with bit 4 set, sets the interrupt-disable flag and loads PC
\* from the IRQ vector; SP decreases by 3 modulo 256 and no other flag or
\* register changes.
C11_Brk ==
    (Stepped /\ Opcode = cpu_const.BRK) =>
        /\ fault.kind = "none"
        /\ SubSeq(bus, 2, Len(bus)) =
              EntryStores(last.regs.sp, NextInstr(2),
                          set_flag(last.regs.flags, BRK_BIT, TRUE))
                  \o VectorLoads(IRQ_VEC)
        /\ regs = [last.regs EXCEPT !.sp = (@ + 253) % 256,
                                    !.flags = set_flag(@, ITR, TRUE),
                                    !.pc = VectorTarget(IRQ_VEC)]

\* a BRK with fewer than three bytes of stack below SP that ended in an
\* overflow panic
C11_Witness ==
    /\ Stepped
    /\ Opcode = cpu_const.BRK
    /\ last.regs.sp < 3
    /\ fault.kind = "overflow"

\* C12: an NMI entry pushes PC, high byte then low byte, then a status byte
\* equal to the live flags, and loads PC from the NMI vector; the flags, A, X
\* and Y are unchanged and SP decreases by 3 modulo 256.
C12_Nmi ==
    last.kind = "nmi" =>
        /\ fault.kind = "none"
        /\ bus = EntryStores(last.regs.sp, last.regs.pc, last.regs.flags)
                     \o VectorLoads(NMI_VEC)
        /\ regs = [last.regs EXCEPT !.sp = (@ + 253) % 256,
                                    !.pc = VectorTarget(NMI_VEC)]

\* an NMI entered with fewer than three bytes of stack below SP that ended
\* in an overflow panic
C12_Witness ==
    /\ last.kind = "nmi"
    /\ last.regs.sp < 3
    /\ fault.kind = "overflow"

\* the flags a pulled status byte b leaves: bit 5 set, bit 4 clear, the
\* other six bits those of b
PulledFlags(f, b) ==
    \A n \in 0..7 :
        BitOf(f, n) = (IF n = 5 THEN 1 ELSE IF n = 4 THEN 0 ELSE BitOf(b, n))

\* the load a pull makes as the k-th of an instruction begun at stack
\* pointer sp
PullFrom(sp, k) == <<"ld", \h100 + ((sp + k) % 256)>>

\* C13: an RTI pulls the status byte first, then PC's low byte, then its
\* high byte, and leaves PC at the pulled address; after RTI or PLP the flags
\* have bit 5 set and bit 4 clear whatever byte was pulled, and the other six
\* flags are the pulled byte's bits.
C13_Rti ==
    /\ (Stepped /\ Opcode = cpu_const.RTI) =>
          /\ fault.kind = "none"
          /\ Len(bus) = 4
          /\ \A k \in 1..3 : <<bus[k + 1][1], bus[k + 1][2]>> = PullFrom(last.regs.sp, k)
          /\ PulledFlags(regs.flags, bus[2][3])
          /\ regs.pc = Word(bus[4][3], bus[3][3])
          /\ regs = [last.regs EXCEPT !.sp = (@ + 3) % 256, !.flags = regs.flags,
                                      !.pc = regs.pc]
    /\ (Stepped /\ Opcode = cpu_const.PLP) =>
          /\ fault.kind = "none"
          /\ Len(bus) = 2
          /\ <<bus[2][1], bus[2][2]>> = PullFrom(last.regs.sp, 1)
          /\ PulledFlags(regs.flags, bus[2][3])
          /\ regs = [last.regs EXCEPT !.sp = (@ + 1) % 256, !.flags = regs.flags,
                                      !.pc = NextInstr(1)]

\* an RTI with fewer than three bytes of stack above SP that ended in an
\* overflow panic after pulling the status byte
C13_Witness ==
    /\ Stepped
    /\ Opcode = cpu_const.RTI
    /\ last.regs.sp = \hFE
    /\ fault.kind = "overflow"
    /\ Len(bus) = 2
    /\ PulledFlags(regs.flags, bus[2][3])

\* C14: in every state reached from power-on or reset by steps and NMI
\* entries bit 5 of the flags byte is 1, and every status byte pushed to the
\* stack (by PHP, BRK or an NMI entry) has bit 5 set.
C14_UnusedSet ==
    /\ BitOf(regs.flags, UNUSED) = 1
    /\ BitOf(reset(Machine).regs.flags, UNUSED) = 1
    /\ (Stepped /\ Opcode = cpu_const.PHP /\ Len(bus) >= 2) =>
          BitOf(bus[2][3], UNUSED) = 1
    /\ (Stepped /\ Opcode = cpu_const.BRK /\ Len(bus) >= 4) =>
          BitOf(bus[4][3], UNUSED) = 1
    /\ (last.kind = "nmi" /\ Len(bus) >= 3) => BitOf(bus[3][3], UNUSED) = 1

\* a PHP that pushed a status byte with bit 5 set after a PLP had pulled a
\* byte with bit 5 clear
C14_Witness ==
    /\ Completed
    /\ Opcode = cpu_const.PHP
    /\ Ram_load(last.ram, \h1FD) = \h00
    /\ last.regs.sp = \hFD
    /\ bus[2] = <<"st", \h1FD, \h30>>

-----------------------------------------------------------------------------
(* Subroutines *)

\* the step is an RTS that follows, with no operation between, a JSR step
ReturnsFromCall ==
    /\ Completed
    /\ Opcode = cpu_const.RTS
    /\ last.prev.kind = "step"
    /\ ld_prg(last.prev.regs.pc) = cpu_const.JSR

\* C15: a JSR at p pushes p+2, high byte then low byte, and sets PC to its
\* absolute target; an RTS pops low then high and sets PC to the popped word
\* plus one modulo 65536; so an RTS that directly follows a JSR resumes at
\* p+3 with SP and all flags as they were before the JSR.
C15_CallReturn ==
    /\ (Stepped /\ Opcode = cpu_const.JSR) =>
          /\ fault.kind = "none"
          /\ SubSeq(bus, 4, Len(bus)) =
                << <<"st", \h100 + last.regs.sp, Hi(NextInstr(2))>>,
                   <<"st", \h100 + ((last.regs.sp + 255) % 256), Lo(NextInstr(2))>> >>
          /\ regs = [last.regs EXCEPT !.pc = Operand16, !.sp = (@ + 254) % 256]
    /\ (Stepped /\ Opcode = cpu_const.RTS) =>
          /\ fault.kind = "none"
          /\ Len(bus) = 3
          /\ \A k \in 1..2 : <<bus[k + 1][1], bus[k + 1][2]>> = PullFrom(last.regs.sp, k)
          /\ regs = [last.regs EXCEPT !.pc = (Word(bus[3][3], bus[2][3]) + 1) % 65536,
                                      !.sp = (@ + 2) % 256]
    /\ ReturnsFromCall =>
          /\ regs.pc = (last.prev.regs.pc + 3) % 65536
          /\ regs.sp = last.prev.regs.sp
          /\ regs.flags = last.prev.regs.flags

\* a JSR with one byte of stack below SP that pushed the return address and
\* ended in an overflow panic
C15_Witness ==
    /\ Stepped
    /\ Opcode = cpu_const.JSR
    /\ last.regs.sp = \h00
    /\ fault.kind = "overflow"
    /\ bus[4] = <<"st", \h100, Hi(NextInstr(2))>>


\* the byte the step read last: the operand of a reading instruction
ReadValue == bus[Len(bus)][3]
CarryIn == BitOf(last.regs.flags, CARRY)
Negative(byte) == byte >= \h80
AdcOps ==
    LET C == cpu_const
    IN  {C.ADC_IMM, C.ADC_ZP, C.ADC_ZPX, C.ADC_ABS, C.ADC_ABSX, C.ADC_ABSY,
         C.ADC_INDX, C.ADC_INDY}
SbcOps ==
    LET C == cpu_const
    IN  {C.SBC_IMM, \hEB, C.SBC_ZP, C.SBC_ZPX, C.SBC_ABS, C.SBC_ABSX,
         C.SBC_ABSY, C.SBC_INDX, C.SBC_INDY}
\* the accumulator and the four arithmetic flags are those of the sum
\* a + m + c, by the two's-complement definitions
SumOf(a, m, c) ==
    /\ regs.acc = (a + m + c) % 256
    /\ flag(regs.flags, CARRY) = (a + m + c > \hFF)
    /\ flag(regs.flags, ZERO) = (regs.acc = 0)
    /\ flag(regs.flags, NEG) = Negative(regs.acc)
    /\ flag(regs.flags, OVERFLOW) =
          (Negative(a) = Negative(m) /\ Negative(regs.acc) # Negative(a))

\* C16: for every accumulator A, operand M and carry-in C, ADC leaves the
\* accumulator at (A + M + C) mod 256, carry set exactly when the sum exceeds
\* 0xFF, zero and negative from the result, and overflow set exactly when A
\* and M have the same sign and the result's sign differs.
C16_Adc ==
    (Completed /\ Opcode \in AdcOps) =>
        SumOf(last.regs.acc, ReadValue, CarryIn)

\* 0x7F + 0x00 with the carry set: the carry-in alone overflows into the sign
C16_Witness ==
    /\ Completed
    /\ Opcode = cpu_const.ADC_IMM
    /\ last.regs.acc = \h7F
    /\ ReadValue = \h00
    /\ CarryIn = 1
    /\ regs.acc = \h80
    /\ flag(regs.flags, OVERFLOW)
    /\ ~flag(regs.flags, CARRY)


\* the accumulator and the four arithmetic flags are those r holds
SameArithmetic(r) ==
    /\ regs.acc = r.acc
    /\ \A n \in {CARRY, ZERO, OVERFLOW, NEG} :
          BitOf(regs.flags, n) = BitOf(r.flags, n)
\* the registers ADC leaves when it reads m in the state before the step
AdcBefore(m) ==
    adc_val([Machine EXCEPT !.regs = last.regs, !.fault = NoFault], m).regs

\* C17: for every accumulator, operand M and carry-in, SBC of M, under each of
\* its opcodes and the alias 0xEB, leaves the accumulator and the carry, zero,
\* negative and overflow flags that ADC of M XOR 0xFF leaves from the same
\* state.
C17_SbcIsAdcOfComplement ==
    (Completed /\ Opcode \in SbcOps) =>
        SameArithmetic(AdcBefore(BitXor(ReadValue, \hFF)))

\* the alias 0xEB taking 0x01 from 0x80 with the carry set: 0x7F, a signed
\* overflow and no borrow
C17_Witness ==
    /\ Completed
    /\ Opcode = \hEB
    /\ last.regs.acc = \h80
    /\ ReadValue = \h01
    /\ CarryIn = 1
    /\ regs.acc = \h7F
    /\ flag(regs.flags, OVERFLOW)
    /\ flag(regs.flags, CARRY)


CmpOps ==
    LET C == cpu_const
    IN  {C.CMP_IMM, C.CMP_ZP, C.CMP_ZPX, C.CMP_ABS, C.CMP_ABSX, C.CMP_ABSY,
         C.CMP_INDX, C.CMP_INDY}
CpxOps == {cpu_const.CPX_IMM, cpu_const.CPX_ZP, cpu_const.CPX_ABS}
CpyOps == {cpu_const.CPY_IMM, cpu_const.CPY_ZP, cpu_const.CPY_ABS}
\* the register the comparison under the opcode reads, before the step
Compared ==
    IF Opcode \in CpxOps THEN last.regs.x
    ELSE IF Opcode \in CpyOps THEN last.regs.y
    ELSE last.regs.acc

\* C18: for CMP, CPX and CPY, every register value R and operand M: carry is
\* set exactly when R >= M, zero exactly when R = M, negative is bit 7 of
\* (R - M) mod 256; the accumulator, X, Y, SP, the overflow flag and the
\* memory are left as they were.
C18_Compare ==
    (Completed /\ Opcode \in CmpOps \cup CpxOps \cup CpyOps) =>
        /\ flag(regs.flags, CARRY) = (Compared >= ReadValue)
        /\ flag(regs.flags, ZERO) = (Compared = ReadValue)
        /\ BitOf(regs.flags, NEG) = BitOf((Compared + 256 - ReadValue) % 256, 7)
        /\ regs.acc = last.regs.acc
        /\ regs.x = last.regs.x
        /\ regs.y = last.regs.y
        /\ regs.sp = last.regs.sp
        /\ BitOf(regs.flags, OVERFLOW) = BitOf(last.regs.flags, OVERFLOW)
        /\ ram = last.ram

\* CPX of 0x80 against 0x01 with the overflow flag set: no borrow, a
\* positive difference, and the overflow flag still set
C18_Witness ==
    /\ Completed
    /\ Opcode = cpu_const.CPX_IMM
    /\ last.regs.x = \h80
    /\ ReadValue = \h01
    /\ flag(last.regs.flags, OVERFLOW)
    /\ flag(regs.flags, OVERFLOW)
    /\ flag(regs.flags, CARRY)
    /\ ~flag(regs.flags, NEG)
    /\ ~flag(regs.flags, ZERO)


\* the zero-page address of the pointer an indirect instruction goes through
ZpPointer ==
    IF Opcode \in IndXOps THEN (Operand + last.regs.x) % 256 ELSE Operand
\* the bytes of the step's bus log that are loads from address a
LoadsFrom(a) == { k \in 3..4 : bus[k][1] = "ld" /\ bus[k][2] = a }

\* C19: in (zp,X) and (zp),Y addressing, charging a page crossing or not,
\* the pointer in zero-page byte 0xFF is assembled from the low byte at
\* 0x00FF and the high byte at 0x0000, never 0x0100; every other pointer p
\* from the low byte at p and the high byte at p + 1; in (zp,X) the pointer
\* is (operand + X) mod 256.
C19_ZpPointerWraps ==
    (Stepped /\ Opcode \in IndXOps \cup IndYOps) =>
        /\ fault.kind = "none"
        /\ Len(bus) = 5
        /\ LoadsFrom(ZpPointer) # {}
        /\ LoadsFrom((ZpPointer + 1) % 256) # {}
        /\ UsedAddress =
              (Word(Ram_load(last.ram, (ZpPointer + 1) % 256),
                    Ram_load(last.ram, ZpPointer))
                 + (IF Opcode \in IndYOps THEN last.regs.y ELSE 0)) % 65536

\* a (zp),Y read through the pointer at 0xFF whose high byte came from 0x0000
C19_Witness ==
    /\ Completed
    /\ Opcode = cpu_const.LDA_INDY
    /\ Operand = \hFF
    /\ Ram_load(last.ram, \h00) = \h02
    /\ Ram_load(last.ram, \hFF) = \hFF
    /\ Ram_load(last.ram, \h100) = \h00
    /\ last.regs.y = \h01
    /\ LoadsFrom(0) # {}
    /\ UsedAddress = \h0300


\* where JMP indirect reads the high byte of its target for the pointer p
JmpHighAddress(p) == IF Lo(p) = \hFF THEN Page(p) ELSE p + 1
\* the byte the bus held at address a before the step
HeldAt(a) == Mmu_peek([ram |-> last.ram], a)

\* C20: JMP indirect through the pointer P, its three bytes below the end
\* of the address space, sets PC to the low byte at P and the high byte at
\* P & 0xFF00 when P's low byte is 0xFF, at P + 1 otherwise; no flag, no
\* other register and no memory changes.
C20_JmpIndirect ==
    (Stepped /\ Opcode = cpu_const.JMP_IND /\ last.regs.pc < \hFFFD) =>
        /\ fault.kind = "none"
        /\ SubSeq(bus, 4, Len(bus)) =
              << <<"ld", Operand16, HeldAt(Operand16)>>,
                 <<"ld", JmpHighAddress(Operand16),
                   HeldAt(JmpHighAddress(Operand16))>> >>
        /\ regs = [last.regs EXCEPT
                     !.pc = Word(HeldAt(JmpHighAddress(Operand16)),
                                 HeldAt(Operand16))]
        /\ ram = last.ram

\* a jump through 0x02FF that took its high byte from 0x0200 while 0x0300
\* held another byte
C20_Witness ==
    /\ Completed
    /\ Opcode = cpu_const.JMP_IND
    /\ Operand16 = \h02FF
    /\ HeldAt(\h02FF) = \h23
    /\ HeldAt(\h0200) = \h81
    /\ HeldAt(\h0300) = \h44
    /\ regs.pc = \h8123


-----------------------------------------------------------------------------
(* The undocumented read-modify-write instructions *)

DcpOps == {\hC7, \hD7, \hCF, \hDF, \hDB, \hC3, \hD3}
IscOps == {\hE7, \hF7, \hEF, \hFF, \hFB, \hE3, \hF3}
SloOps == {\h07, \h17, \h0F, \h1F, \h1B, \h03, \h13}
RlaOps == {\h27, \h37, \h2F, \h3F, \h3B, \h23, \h33}
SreOps == {\h47, \h57, \h4F, \h5F, \h5B, \h53, \h43}
RraOps == {\h67, \h77, \h6F, \h7F, \h7B, \h63, \h73}
RmwIllegalOps == DcpOps \cup IscOps \cup SloOps \cup RlaOps \cup SreOps \cup RraOps
\* the machine before the step, with an empty bus log
MachineBefore ==
    [Machine EXCEPT !.regs = last.regs, !.ram = last.ram, !.fault = NoFault,
                    !.bus = <<>>]
\* the documented read-modify-write instruction an undocumented one begins
\* with, and the documented reading instruction it ends with, each run on
\* the address a of the machine m
FirstBlock(op, m, a) ==
    CASE op \in DcpOps -> dec(ld8_at(returns(m, a)))
      [] op \in IscOps -> inc(ld8_at(returns(m, a)))
      [] op \in SloOps -> asl_addr(ld8_at(returns(m, a)))
      [] op \in RlaOps -> rol_addr(ld8_at(returns(m, a)))
      [] op \in SreOps -> lsr_addr(ld8_at(returns(m, a)))
      [] op \in RraOps -> ror_addr(ld8_at(returns(m, a)))
SecondBlock(op, m, a) ==
    CASE op \in DcpOps -> cmp(ld8_at(returns(m, a)))
      [] op \in IscOps -> sbc(ld8_at(returns(m, a)))
      [] op \in SloOps -> ora(ld8_at(returns(m, a)))
      [] op \in RlaOps -> and(ld8_at(returns(m, a)))
      [] op \in SreOps -> eor(ld8_at(returns(m, a)))
      [] op \in RraOps -> adc(ld8_at(returns(m, a)))
BothBlocks(op, a) == SecondBlock(op, FirstBlock(op, MachineBefore, a), a)
\* the loads that resolve the address of an undocumented read-modify-write
\* instruction: one operand byte in the zero-page modes, two in the absolute
\* modes, one and the two bytes of the pointer in the indirect modes
ResolvingLoads(op) ==
    IF op % 16 = 7 THEN 1 ELSE IF op % 16 = 3 THEN 3 ELSE 2

\* C21: each undocumented read-modify-write instruction leaves the
\* accumulator, the flags and the memory that its two documented building
\* blocks leave when run in order on the same effective address (DCP = DEC
\* then CMP, ISC = INC then SBC, SLO = ASL then ORA, RLA = ROL then AND,
\* SRE = LSR then EOR, RRA = ROR then ADC), and performs exactly one load
\* and one store at that address.
C21_RmwIllegal ==
    (Completed /\ Opcode \in RmwIllegalOps) =>
        /\ regs.acc = BothBlocks(Opcode, UsedAddress).regs.acc
        /\ regs.flags = BothBlocks(Opcode, UsedAddress).regs.flags
        /\ ram = BothBlocks(Opcode, UsedAddress).ram
        /\ Len(bus) = 1 + ResolvingLoads(Opcode) + 2
        /\ bus[Len(bus) - 1][1] = "ld"
        /\ bus[Len(bus) - 1][2] = UsedAddress
        /\ bus[Len(bus)][1] = "st"

\* a DCP that took 0x80 down to 0x7F and found the accumulator's 0x7F equal
\* to it
C21_Witness ==
    /\ Completed
    /\ Opcode = \hC7
    /\ last.regs.acc = \h7F
    /\ Ram_load(last.ram, \h10) = \h80
    /\ Ram_load(ram, \h10) = \h7F
    /\ flag(regs.flags, ZERO)
    /\ flag(regs.flags, CARRY)
    /\ ~flag(regs.flags, NEG)


-----------------------------------------------------------------------------
(* Power-on and reset *)

\* the registers of a machine just powered on or reset
PowerOnRegs ==
    [acc |-> 0, x |-> 0, y |-> 0, sp |-> \hFD, flags |-> \h24,
     pc |-> VectorTarget(RESET_VEC)]

\* C22: after power-on and after a reset from any state A = X = Y = 0,
\* SP = 0xFD, the flags byte is 0b00100100, PC is the little-endian word at
\* the reset vector and the cycle counter is 0; a reset writes nothing to
\* the bus, and a reset of a machine just reset changes nothing.
C22_Reset ==
    /\ last.kind = "new" =>
          /\ regs = PowerOnRegs
          /\ cycle_count = 0
          /\ cc = 0
          /\ \A k \in 1..Len(bus) : bus[k][1] = "ld"
    /\ last.kind = "reset" =>
          /\ fault.kind = "none"
          /\ regs = PowerOnRegs
          /\ cycle_count = 0
          /\ cc = 0
          /\ ram = last.ram
          /\ bus = VectorLoads(RESET_VEC)
          /\ reset(Machine).regs = regs
          /\ reset(Machine).cycle_count = cycle_count
          /\ reset(Machine).cc = cc
          /\ reset(Machine).ram = ram

\* a reset of a machine whose accumulator, stack pointer, program counter
\* and memory an earlier call had changed
C22_Witness ==
    /\ last.kind = "reset"
    /\ last.regs.acc = \h80
    /\ last.regs.sp = \h7E
    /\ last.regs.pc = SUBROUTINE
    /\ last.ram # <<>>
    /\ regs = PowerOnRegs


-----------------------------------------------------------------------------
(* The no-operation opcodes *)

\* the bytes of the instruction under a no-operation opcode
NopLength(op) ==
    IF op \in NopOps1 THEN 1 ELSE IF op \in NopOps2 THEN 2 ELSE 3

\* C23: every no-operation opcode changes no register but PC, no flag and
\* no memory; the one-byte forms advance PC by 1, the two-byte forms by 2,
\* the three-byte forms by 3; the absolute,X forms 0x1C, 0x3C, 0x5C, 0x7C,
\* 0xDC and 0xFC charge one extra cycle exactly when base + X crosses a
\* page, and 0x0C never charges one.
C23_Nops ==
    (Stepped /\ Opcode \in NopOps) =>
        /\ fault.kind = "none"
        /\ regs = [last.regs EXCEPT !.pc = NextInstr(NopLength(Opcode))]
        /\ ram = last.ram
        /\ ret = Cycles(Opcode)
                  + (IF /\ Opcode \in NopOpsAbsX
                        /\ Hi((Operand16 + last.regs.x) % 65536) # Hi(Operand16)
                     THEN 1 ELSE 0)

\* the no-operation 0x3C, its operand word fetched, whose base + X passes
\* 0xFFFF and that ended in an overflow panic
C23_Witness ==
    /\ Stepped
    /\ Opcode = \h3C
    /\ last.regs.pc < \hFFFD
    /\ Len(bus) = 3
    /\ Operand16 + last.regs.x > \hFFFF
    /\ fault.kind = "overflow"


-----------------------------------------------------------------------------
(* Operand bytes *)

\* the instructions of the addressing-mode cartridges that do not jump, and
\* the bytes of each: the opcode and one operand byte, or two in the
\* absolute modes
StraightOps ==
    (AbsOps \ {cpu_const.JMP_ABS, cpu_const.JMP_IND})
        \cup ZpOps \cup IndYOps \cup IndXOps
InstrLength(op) == IF op \in AbsOps THEN 3 ELSE 2

\* C24: resolving an addressing mode advances PC by the number of operand
\* bytes modulo 65536, 1 for immediate, zero-page, zero-page,X, zero-page,Y,
\* (zp,X) and (zp),Y, 2 for absolute, absolute,X and absolute,Y, so every
\* instruction that does not jump leaves PC at its opcode's address plus its
\* length.
C24_PcPastOperands ==
    (Stepped /\ Opcode \in StraightOps) =>
        /\ fault.kind = "none"
        /\ regs.pc = NextInstr(InstrLength(Opcode))

\* an LDA absolute at 0xFFFE, its operand word at 0xFFFF and 0x0000, that
\* ended in an overflow panic after the load of the byte at 0xFFFF
C24_Witness ==
    /\ Stepped
    /\ Opcode = cpu_const.LDA_ABS
    /\ last.regs.pc = \hFFFE
    /\ fault.kind = "overflow"
    /\ bus[Len(bus)][2] = \hFFFF


-----------------------------------------------------------------------------
(* The decimal flag *)

\* a byte with bit 3, the decimal flag, inverted
OtherDecimal(f) == set_flag(f, DEC, ~flag(f, DEC))
\* the step's instruction run from the state that differs from the state
\* before the step in the decimal flag alone
DecimalTwin ==
    step([MachineBefore EXCEPT !.cycle_count = 0,
                               !.regs.flags = OtherDecimal(last.regs.flags)])
\* the instructions that write the decimal flag
DecimalWriters ==
    {cpu_const.SED, cpu_const.CLD, cpu_const.PLP, cpu_const.RTI}
\* the step wrote it: SED and CLD do, PLP and RTI once the status byte is
\* pulled
DecimalWritten ==
    \/ Opcode \in {cpu_const.SED, cpu_const.CLD}
    \/ Opcode \in {cpu_const.PLP, cpu_const.RTI} /\ Len(bus) >= 2
\* the instructions that push the flags byte, and where the byte goes
StatusPushers == {cpu_const.PHP, cpu_const.BRK}
PushedStatusAt ==
    IF Opcode = cpu_const.PHP THEN \h100 + last.regs.sp
    ELSE \h100 + ((last.regs.sp + 254) % 256)
\* the twin's registers, cycle count and outcome are the step's, the
\* decimal flag aside where the instruction does not write it
TwinAgrees(twin) ==
    /\ twin.fault.kind = fault.kind
    /\ twin.regs = IF DecimalWritten THEN regs
                   ELSE [regs EXCEPT !.flags = OtherDecimal(@)]
    /\ Completed => twin.v = ret
    /\ Opcode \in StatusPushers \/ twin.bus = bus
\* the twin's memory is the step's but for the decimal flag in a status
\* byte the instruction pushed
TwinMemory(twin) ==
    IF Opcode \in StatusPushers
    THEN /\ Ram_store(twin.ram, PushedStatusAt, 0)
              = Ram_store(ram, PushedStatusAt, 0)
         /\ Ram_load(twin.ram, PushedStatusAt)
              \in {Ram_load(ram, PushedStatusAt),
                   OtherDecimal(Ram_load(ram, PushedStatusAt))}
    ELSE twin.ram = ram

\* C25 as stated: from two states that differ only in the decimal flag
\* every instruction leaves the same accumulator, the same other flags,
\* the same memory and the same cycle count, and only SED, CLD, PLP and RTI
\* change the decimal flag.
C25_DecimalIgnored ==
    Stepped =>
        /\ TwinAgrees(DecimalTwin)
        /\ DecimalTwin.ram = ram
        /\ (Completed /\ Opcode \notin DecimalWriters) =>
              flag(regs.flags, DEC) = flag(last.regs.flags, DEC)

\* C25, amended: from two states that differ only in the decimal flag every
\* instruction leaves the same registers, the same other flags and the same
\* cycle count, and the same memory but for bit 3 of the status byte that
\* PHP and BRK push; only SED, CLD, PLP and RTI change the decimal flag.
C25_DecimalIgnoredButPushed ==
    Stepped =>
        /\ TwinAgrees(DecimalTwin)
        /\ TwinMemory(DecimalTwin)
        /\ (Completed /\ Opcode \notin DecimalWriters) =>
              flag(regs.flags, DEC) = flag(last.regs.flags, DEC)

\* an ADC of 0x7F and 0x01 with the decimal flag set that gave the binary
\* sum 0x80, as its twin with the flag clear did
C25_Witness ==
    /\ Completed
    /\ Opcode = cpu_const.ADC_IMM
    /\ flag(last.regs.flags, DEC)
    /\ last.regs.acc = \h7F
    /\ ReadValue = \h01
    /\ regs.acc = \h80
    /\ DecimalTwin.regs.acc = \h80
    /\ ~flag(DecimalTwin.regs.flags, DEC)


-----------------------------------------------------------------------------
(* The bus word load *)

\* the instructions whose operand is a word that Mmu::ld16 loads from the
\* address after the opcode and that is the address they use
WordOps == {cpu_const.JMP_ABS, cpu_const.LDA_ABS, cpu_const.STA_ABS}

\* C26: for every 16-bit address a the bus word load returns the byte at a
\* as the low byte and the byte at a + 1 as the high byte, performs exactly
\* those two byte loads, the low byte first, and completes without error
\* for every a, 0xFFFF included.
C26_Ld16 ==
    (Stepped /\ Opcode \in WordOps) =>
        /\ fault.kind = "none"
        /\ SubSeq(bus, 2, 3) =
              << <<"ld", NextInstr(1), HeldAt(NextInstr(1))>>,
                 <<"ld", NextInstr(2), HeldAt(NextInstr(2))>> >>
        /\ Len(bus) = IF Opcode = cpu_const.JMP_ABS THEN 3 ELSE 4
        /\ UsedAddress = Word(HeldAt(NextInstr(2)), HeldAt(NextInstr(1)))

\* a JMP absolute at 0xFFFE whose word load at 0xFFFF read the low byte and
\* ended in an overflow panic
C26_Witness ==
    /\ Stepped
    /\ Opcode = cpu_const.JMP_ABS
    /\ last.regs.pc = \hFFFE
    /\ fault.kind = "overflow"
    /\ Len(bus) = 2
    /\ bus[2] = <<"ld", \hFFFF, HeldAt(\hFFFF)>>


-----------------------------------------------------------------------------
(* Pushes and pulls of the status byte and the accumulator *)

\* the step follows, with nothing between, a step on the opcode op
Follows(op) ==
    /\ Stepped
    /\ last.prev.kind = "step"
    /\ ld_prg(last.prev.regs.pc) = op

\* C27: PHP pushes the flags byte with bit 4 set and leaves the flags as
\* they were; PLA sets A to the byte it pops, and zero and negative from
\* it; PHP then PLP, and PHA then PLA, restore SP and leave the flags byte
\* (its bit 5 set and bit 4 clear before the push), respectively the
\* accumulator, at the value before the push.
C27_PushPull ==
    /\ (Stepped /\ Opcode = cpu_const.PHP) =>
          /\ fault.kind = "none"
          /\ bus[2] = <<"st", \h100 + last.regs.sp,
                        set_flag(last.regs.flags, BRK_BIT, TRUE)>>
          /\ regs = [last.regs EXCEPT !.sp = (@ + 255) % 256,
                                      !.pc = NextInstr(1)]
    /\ (Stepped /\ Opcode = cpu_const.PLA) =>
          /\ fault.kind = "none"
          /\ bus[2] = <<"ld", \h100 + ((last.regs.sp + 1) % 256),
                        HeldAt(\h100 + ((last.regs.sp + 1) % 256))>>
          /\ regs.acc = bus[2][3]
          /\ flag(regs.flags, ZERO) = (regs.acc = 0)
          /\ flag(regs.flags, NEG) = Negative(regs.acc)
    /\ (Opcode = cpu_const.PLP /\ Follows(cpu_const.PHP)
            /\ flag(last.prev.regs.flags, UNUSED)
            /\ ~flag(last.prev.regs.flags, BRK_BIT)) =>
          /\ fault.kind = "none"
          /\ regs.sp = last.prev.regs.sp
          /\ regs.flags = last.prev.regs.flags
    /\ (Opcode = cpu_const.PLA /\ Follows(cpu_const.PHA)) =>
          /\ fault.kind = "none"
          /\ regs.sp = last.prev.regs.sp
          /\ regs.acc = last.prev.regs.acc

\* a PHP at SP = 0x00 that stored the flags byte with bit 4 set and ended
\* in an overflow panic
C27_Witness ==
    /\ Stepped
    /\ Opcode = cpu_const.PHP
    /\ last.regs.sp = \h00
    /\ fault.kind = "overflow"
    /\ bus[2] = <<"st", \h100, last.regs.flags + 16>>


-----------------------------------------------------------------------------
(* SYA and SXA *)

\* the register SYA (0x9C) and SXA (0x9E) store, and the register their
\* addressing mode adds
StoredRegister == IF Opcode = \h9C THEN last.regs.y ELSE last.regs.x
IndexRegister == IF Opcode = \h9C THEN last.regs.x ELSE last.regs.y
\* the indexed address modulo 65536, masked with the stored register in
\* the high byte when the indexing crossed a page
MaskedTarget ==
    LET target == (Operand16 + IndexRegister) % 65536
    IN  IF Hi(target) # Hi(Operand16)
        THEN BitAnd(target, StoredRegister * 256)
        ELSE target

\* C28: for every X, Y and operand word SYA and SXA complete without an
\* arithmetic error and store the register AND ((high byte of the target
\* address + 1) mod 256); when the indexing crossed a page, tested modulo
\* 65536, the target address is first masked with the register shifted
\* into the high byte.
C28_SyaSxa ==
    (Stepped /\ Opcode \in {\h9C, \h9E}) =>
        /\ fault.kind = "none"
        /\ Len(bus) = 4
        /\ bus[4] = <<"st", MaskedTarget,
                      BitAnd(StoredRegister, (Hi(MaskedTarget) + 1) % 256)>>

\* a SYA to 0xFF00 with X = 0, no index to carry, that ended in an overflow
\* panic and stored nothing
C28_Witness ==
    /\ Stepped
    /\ Opcode = \h9C
    /\ Operand16 = \hFF00
    /\ last.regs.x = \h00
    /\ fault.kind = "overflow"
    /\ Len(bus) = 3


-----------------------------------------------------------------------------
(* Read-modify-write instructions in absolute,X mode *)

\* C29: ASL, LSR, ROL, ROR, INC and DEC in absolute,X mode return the
\* opcode's base cost whether or not base + X crosses a page; none of them
\* is charged the page-cross penalty of the reads.
C29_RmwAbsXBaseCost ==
    (Stepped /\ Opcode \in RmwAbsXOps) =>
        /\ fault.kind = "none"
        /\ ret = Cycles(Opcode)

\* an INC $02FF,X with X = 1 that returned one cycle more than its base cost
C29_Witness ==
    /\ Completed
    /\ Opcode = cpu_const.INC_ABSX
    /\ Operand16 = \h02FF
    /\ last.regs.x = \h01
    /\ UsedAddress = \h0300
    /\ ret = Cycles(Opcode) + 1


-----------------------------------------------------------------------------
(* Interrupt round trips *)

\* C30: an NMI entry immediately followed by an RTI restores PC, SP, the
\* whole flags byte, A, X and Y to their values just before the NMI; a BRK
\* at p immediately followed by an RTI resumes at p + 2 with the flags byte,
\* interrupt-disable included, as it was before the BRK.
C30_InterruptRoundTrip ==
    /\ (last.kind = "nmi" \/ (Stepped /\ Opcode = cpu_const.BRK)) =>
          fault.kind = "none"
    /\ (Stepped /\ Opcode = cpu_const.RTI /\ last.prev.kind = "nmi") =>
          /\ fault.kind = "none"
          /\ regs = last.prev.regs
    /\ (Follows(cpu_const.BRK) /\ Opcode = cpu_const.RTI) =>
          /\ fault.kind = "none"
          /\ regs.pc = (last.prev.regs.pc + 2) % 65536
          /\ regs.flags = last.prev.regs.flags

\* an NMI entered at SP = 0x02 that pushed its three bytes and then ended
\* in an overflow panic before loading the vector, so that no RTI follows
C30_Witness ==
    /\ last.kind = "nmi"
    /\ last.regs.sp = \h02
    /\ Len(bus) = 3
    /\ fault.kind = "overflow"


-----------------------------------------------------------------------------
(* The break bit *)

\* C31: in every state reached from power-on or reset by steps and NMI
\* entries bit 4 of the live flags register is 0; it is set only in the
\* status bytes that BRK and PHP push, and is clear in the one an NMI entry
\* pushes.
C31_BreakClear ==
    /\ BitOf(regs.flags, BRK_BIT) = 0
    /\ BitOf(reset(Machine).regs.flags, BRK_BIT) = 0
    /\ (Stepped /\ Opcode = cpu_const.PHP /\ Len(bus) >= 2) =>
          BitOf(bus[2][3], BRK_BIT) = 1
    /\ (Stepped /\ Opcode = cpu_const.BRK /\ Len(bus) >= 4) =>
          BitOf(bus[4][3], BRK_BIT) = 1
    /\ (last.kind = "nmi" /\ Len(bus) >= 3) => BitOf(bus[3][3], BRK_BIT) = 0

\* an RTI that pulled the status byte 0xFF, break bit set, and left the
\* live flags at 0xEF
C31_Witness ==
    /\ Completed
    /\ Opcode = cpu_const.RTI
    /\ bus[2][3] = \hFF
    /\ regs.flags = \hEF


-----------------------------------------------------------------------------
(* Work RAM and its mirrors *)

\* the bus accesses of the last operation before its k-th that stored to a
\* mirror of the work-RAM address a
StoresBefore(k, a) ==
    { j \in 1..(k - 1) : /\ bus[j][1] = "st"
                         /\ bus[j][2] <= \h1FFF
                         /\ bus[j][2] % \h800 = a % \h800 }
LatestOf(S) == CHOOSE j \in S : \A i \in S : i <= j
\* the byte last stored to a mirror of a before the k-th access: by this
\* operation, or else what the 0x800 bytes held when it began
HeldBefore(k, a) ==
    IF StoresBefore(k, a) = {} THEN Ram_load(last.ram, a % \h800)
    ELSE bus[LatestOf(StoresBefore(k, a))][3]

\* the indexes of work RAM the last operation stored to; every other index
\* holds 0 unless it is in the domain of the sparse array
StoredIndexes ==
    { bus[j][2] % \h800 :
        j \in { i \in 1..Len(bus) : bus[i][1] = "st" /\ bus[i][2] <= \h1FFF } }

\* C32: work RAM is mirrored every 0x800 bytes across 0x0000..0x1FFF: a bus
\* load at an address of that range returns the byte last stored at any
\* address with the same remainder modulo 0x800, the 0x800 bytes after an
\* operation hold the last byte stored to each, and no access is outside
\* the array's bounds.
C32_RamMirrors ==
    /\ fault.kind # "bounds"
    /\ DOMAIN ram \subseteq 0..(RAM_LEN - 1)
    /\ \A k \in 1..Len(bus) :
          (bus[k][1] = "ld" /\ bus[k][2] <= \h1FFF) =>
              bus[k][3] = HeldBefore(k, bus[k][2])
    /\ \A a \in DOMAIN ram \cup DOMAIN last.ram \cup StoredIndexes :
          Ram_load(ram, a) = HeldBefore(Len(bus) + 1, a)

\* a load at 0x1810 that returned the 0xFF stored two instructions earlier
\* at 0x0010
C32_Witness ==
    /\ Completed
    /\ Opcode = cpu_const.LDA_ABS
    /\ bus[4] = <<"ld", \h1810, \hFF>>
    /\ Word(ld_prg(CODE + 4), ld_prg(CODE + 3)) = \h0010
    /\ regs.acc = \hFF


-----------------------------------------------------------------------------
(* Video memory *)

\* the mirroring modes nt_mirror resolves; FourScreen is unimplemented
SupportedModes == ScreenModes \ {"FourScreen"}
\* the 0x400-byte bank of vram a nametable is kept in
BankOf(mode, nametable) ==
    CASE mode = "Horizontal" -> nametable \div 2
      [] mode = "Vertical" -> nametable % 2
      [] mode = "OneScreenSwapLower" -> 0
      [] mode = "OneScreenSwapUpper" -> 1
\* where a nametable offset 0x000..0xFFF is kept
MirroredIndex(mode, offset) ==
    (BankOf(mode, offset \div \h400) * \h400) + (offset % \h400)

\* C33: for every nametable offset 0x000..0xFFF and each supported
\* mirroring mode the resolved index is below 0x800, so that no access
\* panics: horizontal keeps nametables 0 and 1 in the first 0x400 bytes and
\* 2 and 3 in the other, vertical keeps 0 and 2 together and 1 and 3
\* together, one-screen keeps all four in the selected bank.
C33_NametableMirrors ==
    /\ (video.count = 0 /\ video.mode \in SupportedModes) =>
          \A offset \in 0..\hFFF :
              /\ nt_mirror(video.mode, offset) \in 0..(VRAM_SIZE - 1)
              /\ nt_mirror(video.mode, offset) = MirroredIndex(video.mode, offset)
    /\ (/\ video.mode \in SupportedModes
        /\ video.call \in {"buffered_ld8", "store"}
        /\ video.addr \in \h2000..\h3FFF) =>
          /\ ~video.panicked
          /\ video.addr <= \h3EFF => video.index # NoIndex
          /\ video.index # NoIndex =>
                /\ video.index < VRAM_SIZE
                /\ video.index = MirroredIndex(video.mode, video.addr % \h1000)

\* a store at 0x2400, in the second nametable, that horizontal mirroring
\* sent to index 0
C33_Witness ==
    /\ video.call = "store"
    /\ video.addr = \h2400
    /\ video.mode = "Horizontal"
    /\ video.index = 0
    /\ held(video.vram, 0) = \h5A

\* the byte a buffered read at address a latches: the byte at a below
\* 0x3F00, the nametable byte mirrored under a palette address
LatchedBy(a) ==
    IF a < \h2000 THEN ld_chr(video, a)
    ELSE held(video.vram, MirroredIndex(video.mode, a % \h1000))

\* C34: in a supported mirroring mode a buffered read below 0x3F00 returns
\* what the previous buffered read latched and latches the byte at its own
\* address, so that of two reads in a row the second returns the byte the
\* first addressed; a read at 0x3F00..0x3FFF returns the palette byte at
\* once and latches the nametable byte mirrored underneath.
C34_BufferedReads ==
    (/\ video.call = "buffered_ld8"
     /\ video.mode \in SupportedModes
     /\ video.addr <= \h3FFF) =>
        /\ ~video.panicked
        /\ video.ppudata_buff = LatchedBy(video.addr)
        /\ video.addr < \h3F00 =>
              /\ video.out = video.before.ppudata_buff
              /\ video.before.call = "buffered_ld8" =>
                    video.out = LatchedBy(video.before.addr)
        /\ video.addr >= \h3F00 =>
              video.out = held(video.palette, palette_mirror(video.addr))

\* of two reads in a row the second, at 0x2000, returned the 0x5A stored
\* at 0x2FFF that the first had latched, and latched another byte
C34_Witness ==
    /\ video.call = "buffered_ld8"
    /\ video.addr = \h2000
    /\ video.before.call = "buffered_ld8"
    /\ video.before.addr = \h2FFF
    /\ video.out = \h5A
    /\ video.ppudata_buff # \h5A

====
